---- MODULE Spec2Model ----
(***************************************************************************)
(* Model of the CDP session/transport core of cdp-mcp (src/src/cdp-client.ts): *)
(* the CDPClient class (WebSocket channel, command dispatcher, event bus,   *)
(* frame/context maps), the module-level singleton createClient/getClient,  *)
(* and the client's methods connect, type, click, screenshot, listFrames,   *)
(* evaluateInFrame, findElementInFrames and monacoEditor, with the          *)
(* cdp_interact 'type' action of src/src/index.ts.                          *)
(***************************************************************************)
EXTENDS Integers, Sequences, FiniteSets, TLC

\* ------------------------------------------------------------------ bounds
MaxClients == 2    \* CDPClient objects constructed in a run
MaxChans == 2      \* WebSocket objects constructed in a run
MaxSends == 2      \* send calls that pass the connected check in a run
MaxBusSends == 1   \* the same, in the event-bus specification
MaxHandlers == 2   \* on() registrations per event name

Clients == 1..MaxClients
Chans == 1..MaxChans
Ids == 1..MaxSends
Ctxs == {1, 2}

\* ------------------------------------------------------- program constants
FrameIds == {"F1", "F2", "F3", "F4"}
NoFrame == "none"
Results == {"ra", "rb"}
UserEvents == {"X"}
UserHandlers == {"h1", "h2", "hThrow"}
CtxCreated == "Runtime.executionContextCreated"
CtxDestroyed == "Runtime.executionContextDestroyed"
CtxCleared == "Runtime.executionContextsCleared"
EventNames == UserEvents \cup {CtxCreated, CtxDestroyed, CtxCleared}

VARIABLES
  client,           \* the module-level singleton: 0 is null
  nClients,         \* number of CDPClient objects constructed so far
  ws,               \* ws[c]: the client's channel, 0 is null
  messageId,        \* messageId[c]: next command id
  pendingMessages,  \* pendingMessages[c]: keys of the pending table
  eventHandlers,    \* eventHandlers[c][e]: ordered handler list (<<>> when absent)
  frameContexts,    \* frameContexts[c][f]: context id, 0 when absent
  contextFrames,    \* contextFrames[c][x]: frame id, NoFrame when absent
  readyState,       \* readyState[ch] of every WebSocket object created
  owner,            \* owner[ch]: the client whose handlers are bound to ch
  wire,             \* wire[c]: ids of the command frames the client wrote, in order
  outcome,          \* outcome[c][id]: state of the promise returned by send
  value,            \* value[c][id]: result or error the promise settled with
  settles,          \* settles[c][id]: number of resolve/reject invocations
  timer,            \* timer[c][id]: the 30 s timer of the call
  last,             \* the operation that ran last, with what it did
  proc,             \* the client method in progress: its position, locals, commands sent, result
  page              \* the browser side the method talks to

vars == <<client, nClients, ws, messageId, pendingMessages, eventHandlers,
          frameContexts, contextFrames, readyState, owner, wire,
          outcome, value, settles, timer, last, proc, page>>

clientVars == <<client, nClients>>
chanVars == <<readyState, owner>>
callVars == <<wire, outcome, value, settles, timer>>
mapVars == <<frameContexts, contextFrames>>
procVars == <<proc, page>>

NoFrameMsg == [hasId |-> FALSE, id |-> 0, hasMethod |-> FALSE, method |-> "none",
               isError |-> FALSE, result |-> "none", ctx |-> 0, frame |-> NoFrame]

\* what the operation that ran last did towards its caller and the handlers:
\* for a 'message' listener whether the frame carried an id and a method and
\* the handler calls made, for any operation whether it threw
Idle == [op |-> "none", c |-> 0, hasId |-> FALSE, hasMethod |-> FALSE, log |-> <<>>, threw |-> FALSE]

\* no client method in progress, no page state the method depends on
NoProc == [op |-> "none", pc |-> "done"]

NoPage == [kind |-> "none"]

\* ---------------------------------------------------------------- inbound frames
\* {id, result} | {id, error}, with or without a method field as well
ResponseFrames ==
  { [hasId |-> TRUE, id |-> k, hasMethod |-> FALSE, method |-> "none",
     isError |-> e, result |-> IF e THEN "none" ELSE r, ctx |-> 0, frame |-> NoFrame]
      : k \in Ids, e \in BOOLEAN, r \in Results }

BothFrames ==
  { [hasId |-> TRUE, id |-> k, hasMethod |-> TRUE, method |-> e,
     isError |-> FALSE, result |-> "ra", ctx |-> 1, frame |-> "F1"]
      : k \in Ids, e \in {"X", CtxCleared} }

\* {method, params}: the params of a context event name a context and a frame
EventFrames ==
  { [hasId |-> FALSE, id |-> 0, hasMethod |-> TRUE, method |-> e,
     isError |-> FALSE, result |-> "none", ctx |-> x, frame |-> "F1"]
      : e \in EventNames, x \in Ctxs }

InFrames == ResponseFrames \cup BothFrames \cup EventFrames \cup {NoFrameMsg}

\* ------------------------------------------------------------------- Init
\* the module as loaded: no client yet
InitModule ==
  /\ client = 0
  /\ nClients = 0
  /\ ws = [c \in Clients |-> 0]
  /\ messageId = [c \in Clients |-> 1]
  /\ pendingMessages = [c \in Clients |-> {}]
  /\ eventHandlers = [c \in Clients |-> [e \in EventNames |-> <<>>]]
  /\ frameContexts = [c \in Clients |-> [f \in FrameIds |-> 0]]
  /\ contextFrames = [c \in Clients |-> [x \in Ctxs |-> NoFrame]]
  /\ readyState = [ch \in Chans |-> "NONE"]
  /\ owner = [ch \in Chans |-> 0]
  /\ wire = [c \in Clients |-> <<>>]
  /\ outcome = [c \in Clients |-> [k \in Ids |-> "none"]]
  /\ value = [c \in Clients |-> [k \in Ids |-> "none"]]
  /\ settles = [c \in Clients |-> [k \in Ids |-> 0]]
  /\ timer = [c \in Clients |-> [k \in Ids |-> "none"]]
  /\ last = Idle
  /\ proc = NoProc
  /\ page = NoPage

\* ---------------------------------------------------------- promise callbacks
\* resolve/reject of the promise created in send: the first invocation settles
\* the promise, every invocation is counted.
SettleOutcome(c, k, how) ==
  [outcome EXCEPT ![c][k] = IF @ = "pending" THEN how ELSE @]

SettleValue(c, k, v) ==
  [value EXCEPT ![c][k] = IF outcome[c][k] = "pending" THEN v ELSE @]

Settle(c, k, how, v) ==
  /\ outcome' = SettleOutcome(c, k, how)
  /\ value' = SettleValue(c, k, v)
  /\ settles' = [settles EXCEPT ![c][k] = @ + 1]

\* ------------------------------------------------------------- the channel
\* WebSocket.close(): starts the closing handshake of an open socket, aborts
\* the handshake of a connecting one, does nothing otherwise.
WsClose(st) ==
  CASE st = "OPEN" -> "CLOSING"
    [] st = "CONNECTING" -> "ABORTING"
    [] OTHER -> st

\* the connected check without the readyState test
IsOpenNoReadyState(c) == ws[c] # 0

\* !(!this.ws || this.ws.readyState !== WebSocket.OPEN)
IsOpen(c) == ws[c] # 0 /\ readyState[ws[c]] = "OPEN"

Created(c) == c <= nClients

FreeChan == CHOOSE ch \in Chans : readyState[ch] = "NONE" /\ \A d \in Chans : readyState[d] = "NONE" => ch <= d

HasFreeChan == \E ch \in Chans : readyState[ch] = "NONE"

SentTotal == LET RECURSIVE Sum(_)
                 Sum(S) == IF S = {} THEN 0
                           ELSE LET c == CHOOSE x \in S : TRUE
                                IN (messageId[c] - 1) + Sum(S \ {c})
             IN Sum(Clients)

\* new WebSocket(wsUrl) with the four listeners of connectToTab bound to client c
NewWebSocket(c, rs) ==
  /\ ws' = [ws EXCEPT ![c] = FreeChan]
  /\ readyState' = [rs EXCEPT ![FreeChan] = "CONNECTING"]
  /\ owner' = [owner EXCEPT ![FreeChan] = c]

\* connect(): the connectToTab step; the previous channel, if any, is not closed
ConnectToTab(c) ==
  /\ Created(c) /\ HasFreeChan
  /\ NewWebSocket(c, readyState)
  /\ last' = Idle
  /\ UNCHANGED <<clientVars, messageId, pendingMessages, eventHandlers, mapVars, callVars, procVars>>

\* switchTab(): close the current channel, then connectToTab
SwitchTab(c) ==
  /\ Created(c) /\ HasFreeChan
  /\ NewWebSocket(c, IF ws[c] # 0 THEN [readyState EXCEPT ![ws[c]] = WsClose(@)] ELSE readyState)
  /\ last' = Idle
  /\ UNCHANGED <<clientVars, messageId, pendingMessages, eventHandlers, mapVars, callVars, procVars>>

\* ws 'open'
WsOpen(ch) ==
  /\ readyState[ch] = "CONNECTING"
  /\ readyState' = [readyState EXCEPT ![ch] = "OPEN"]
  /\ last' = Idle
  /\ UNCHANGED <<clientVars, ws, messageId, pendingMessages, eventHandlers, mapVars, owner, callVars, procVars>>

\* ws 'close' listener: this.ws = null
OnClose(c) == [ws EXCEPT ![c] = 0]

\* ws 'close': the peer or the network closed the channel, a connection attempt
\* failed, or a local close() completed
WsClosed(ch) ==
  /\ readyState[ch] \in {"CONNECTING", "OPEN", "CLOSING", "ABORTING"}
  /\ readyState' = [readyState EXCEPT ![ch] = "CLOSED"]
  /\ ws' = OnClose(owner[ch])
  /\ last' = Idle
  /\ UNCHANGED <<clientVars, messageId, pendingMessages, eventHandlers, mapVars, owner, callVars, procVars>>

\* ------------------------------------------------------------------ send
SendNotConnected(c) ==
  /\ Created(c) /\ ~IsOpen(c)
  /\ last' = [Idle EXCEPT !.op = "send", !.c = c, !.threw = TRUE]
  /\ UNCHANGED <<clientVars, ws, messageId, pendingMessages, eventHandlers, mapVars, chanVars, callVars, procVars>>

\* an id taken from the size of the pending table instead of the counter
AllocIdFromTable(c) == Cardinality(pendingMessages[c]) + 1

\* const id = this.messageId++ : the value before the increment
AllocId(c) == messageId[c]

SendConnected(c) ==
  /\ Created(c) /\ IsOpen(c)
  /\ SentTotal < MaxSends
  /\ AllocId(c) \in Ids
  /\ LET id == AllocId(c) IN
       /\ messageId' = [messageId EXCEPT ![c] = id + 1]
       /\ pendingMessages' = [pendingMessages EXCEPT ![c] = @ \cup {id}]
       /\ wire' = [wire EXCEPT ![c] = Append(@, id)]
       /\ outcome' = [outcome EXCEPT ![c][id] = "pending"]
       /\ timer' = [timer EXCEPT ![c][id] = "armed"]
       /\ last' = [Idle EXCEPT !.op = "send", !.c = c]
  /\ UNCHANGED <<clientVars, ws, eventHandlers, mapVars, readyState, owner, value, settles, procVars>>

\* the setTimeout callback of send
Timeout(c, k) ==
  /\ timer[c][k] = "armed"
  /\ timer' = [timer EXCEPT ![c][k] = "fired"]
  /\ IF k \in pendingMessages[c]
       THEN /\ pendingMessages' = [pendingMessages EXCEPT ![c] = @ \ {k}]
            /\ Settle(c, k, "rejected", "timeout")
       ELSE UNCHANGED <<pendingMessages, outcome, value, settles>>
  /\ last' = Idle
  /\ UNCHANGED <<clientVars, ws, messageId, eventHandlers, mapVars, chanVars, wire, procVars>>

\* -------------------------------------------------------------- disconnect
\* disconnect() rejects nothing: the pending table is cleared as it is.
\* (currentTabId and mainFrameId, read by none of the operations here, are left out.)
DisconnectState(c) ==
  /\ ws' = [ws EXCEPT ![c] = 0]
  /\ readyState' = IF ws[c] # 0 THEN [readyState EXCEPT ![ws[c]] = WsClose(@)] ELSE readyState
  /\ pendingMessages' = [pendingMessages EXCEPT ![c] = {}]
  /\ eventHandlers' = [eventHandlers EXCEPT ![c] = [e \in EventNames |-> <<>>]]
  /\ frameContexts' = [frameContexts EXCEPT ![c] = [f \in FrameIds |-> 0]]
  /\ contextFrames' = [contextFrames EXCEPT ![c] = [x \in Ctxs |-> NoFrame]]

Disconnect(c) ==
  /\ Created(c)
  /\ DisconnectState(c)
  /\ last' = Idle
  /\ UNCHANGED <<clientVars, messageId, owner, callVars, procVars>>

\* ---------------------------------------------------------- the singleton
GetClient == client

CreateClient ==
  /\ nClients < MaxClients
  /\ IF client # 0
       THEN DisconnectState(client)
       ELSE UNCHANGED <<ws, readyState, pendingMessages, eventHandlers, mapVars>>
  /\ nClients' = nClients + 1
  /\ client' = nClients + 1
  /\ last' = Idle
  /\ UNCHANGED <<messageId, owner, callVars, procVars>>

\* --------------------------------------------------------------- event bus
\* on(event, handler)
OnState(c, e, h) ==
  [eventHandlers EXCEPT ![c][e] = Append(@, h)]

On(c, e, h) ==
  /\ Created(c)
  /\ Len(eventHandlers[c][e]) < MaxHandlers
  /\ eventHandlers' = OnState(c, e, h)
  /\ last' = Idle
  /\ UNCHANGED <<clientVars, ws, messageId, pendingMessages, mapVars, chanVars, callVars, procVars>>

\* setupFrameTracking(): three on() calls
TrackingHandlers(c) ==
  [eventHandlers EXCEPT ![c][CtxCreated] = Append(@, "onCreated"),
                        ![c][CtxDestroyed] = Append(@, "onDestroyed"),
                        ![c][CtxCleared] = Append(@, "onCleared")]

SetupFrameTracking(c) ==
  /\ Created(c)
  /\ Len(eventHandlers[c][CtxCreated]) < MaxHandlers
  /\ eventHandlers' = TrackingHandlers(c)
  /\ last' = Idle
  /\ UNCHANGED <<clientVars, ws, messageId, pendingMessages, mapVars, chanVars, callVars, procVars>>

\* a delete that removes nothing
MapDeleteNothing(m, k, absent) == m

\* Map.delete(key): absent is the value that stands for no entry
MapDelete(m, k, absent) == [m EXCEPT ![k] = absent]

\* one handler call h(message.params); st = [fc, cf, log, threw] is the
\* client's maps, the calls made so far and whether a handler has thrown
Invoke(h, p, st) ==
  LET st1 == [st EXCEPT !.log = Append(@, <<h, p>>)] IN
  CASE h = "onCreated" ->
         IF p.frame # NoFrame
           THEN [st1 EXCEPT !.fc = [@ EXCEPT ![p.frame] = p.ctx],
                            !.cf = [@ EXCEPT ![p.ctx] = p.frame]]
           ELSE st1
    [] h = "onDestroyed" ->
         IF st.cf[p.ctx] # NoFrame
           THEN [st1 EXCEPT !.fc = MapDelete(@, st.cf[p.ctx], 0),
                            !.cf = MapDelete(@, p.ctx, NoFrame)]
           ELSE st1
    [] h = "onCleared" ->
         [st1 EXCEPT !.fc = [f \in FrameIds |-> 0],
                     !.cf = [x \in Ctxs |-> NoFrame]]
    [] h = "hThrow" -> [st1 EXCEPT !.threw = TRUE]
    [] OTHER -> st1

\* handlers.forEach(h => h(message.params)): an exception ends the loop
RECURSIVE ForEach(_, _, _)
ForEach(hs, p, st) ==
  IF hs = <<>> \/ st.threw THEN st
  ELSE ForEach(Tail(hs), p, Invoke(Head(hs), p, st))

Dispatch(c, f) ==
  ForEach(eventHandlers[c][f.method], [ctx |-> f.ctx, frame |-> f.frame],
          [fc |-> frameContexts[c], cf |-> contextFrames[c], log |-> <<>>, threw |-> FALSE])

\* the method test made before the id test
RouteMethodFirst(f) ==
  IF f.hasMethod THEN "eventbus"
  ELSE IF f.hasId THEN "dispatcher"
  ELSE "dropped"

\* which branch of the 'message' listener a frame takes
Route(f) ==
  IF f.hasId THEN "dispatcher"
  ELSE IF f.hasMethod THEN "eventbus"
  ELSE "dropped"

\* the oldest pending entry, whatever id the frame bears
LookupOldest(c, id) ==
  IF pendingMessages[c] = {} THEN 0
  ELSE CHOOSE k \in pendingMessages[c] : \A j \in pendingMessages[c] : k <= j

\* this.pendingMessages.get(message.id): the entry's key, 0 for undefined
Lookup(c, id) == IF id \in pendingMessages[c] THEN id ELSE 0

\* const message = JSON.parse(data.toString()): the frame the listener got
Received(c, f) ==
  [Idle EXCEPT !.op = "message", !.c = c, !.hasId = f.hasId, !.hasMethod = f.hasMethod]

\* ws 'message' listener
RecvMessage(ch, f) ==
  /\ readyState[ch] \in {"OPEN", "CLOSING"}
  /\ LET c == owner[ch]
         k == Lookup(c, f.id) IN
     CASE Route(f) = "dispatcher" ->
            /\ IF k # 0
                 THEN /\ pendingMessages' = [pendingMessages EXCEPT ![c] = @ \ {k}]
                      /\ IF f.isError
                           THEN Settle(c, k, "rejected", "remote")
                           ELSE Settle(c, k, "resolved", f.result)
                 ELSE UNCHANGED <<pendingMessages, outcome, value, settles>>
            /\ last' = [Received(c, f) EXCEPT !.log = <<>>]
            /\ UNCHANGED mapVars
       [] Route(f) = "eventbus" ->
            LET st == Dispatch(c, f) IN
            /\ frameContexts' = [frameContexts EXCEPT ![c] = st.fc]
            /\ contextFrames' = [contextFrames EXCEPT ![c] = st.cf]
            /\ last' = [Received(c, f) EXCEPT !.log = st.log, !.threw = st.threw]
            /\ UNCHANGED <<pendingMessages, outcome, value, settles>>
       [] OTHER ->
            /\ last' = Received(c, f)
            /\ UNCHANGED <<pendingMessages, outcome, value, settles, mapVars>>
  /\ UNCHANGED <<clientVars, ws, messageId, eventHandlers, chanVars, wire, timer, procVars>>

\* ------------------------------------------------------------ specifications
\* One CDPClient from its construction by the first createClient(): channels,
\* commands, timers, responses, teardown.
Init ==
  /\ client = 1
  /\ nClients = 1
  /\ ws = [c \in Clients |-> 0]
  /\ messageId = [c \in Clients |-> 1]
  /\ pendingMessages = [c \in Clients |-> {}]
  /\ eventHandlers = [c \in Clients |-> [e \in EventNames |-> <<>>]]
  /\ frameContexts = [c \in Clients |-> [f \in FrameIds |-> 0]]
  /\ contextFrames = [c \in Clients |-> [x \in Ctxs |-> NoFrame]]
  /\ readyState = [ch \in Chans |-> "NONE"]
  /\ owner = [ch \in Chans |-> 0]
  /\ wire = [c \in Clients |-> <<>>]
  /\ outcome = [c \in Clients |-> [k \in Ids |-> "none"]]
  /\ value = [c \in Clients |-> [k \in Ids |-> "none"]]
  /\ settles = [c \in Clients |-> [k \in Ids |-> 0]]
  /\ timer = [c \in Clients |-> [k \in Ids |-> "none"]]
  /\ last = Idle
  /\ proc = NoProc
  /\ page = NoPage

Next ==
  \/ ConnectToTab(1)
  \/ SwitchTab(1)
  \/ \E ch \in Chans : WsOpen(ch)
  \/ \E ch \in Chans : WsClosed(ch)
  \/ SendNotConnected(1)
  \/ SendConnected(1)
  \/ \E k \in Ids : Timeout(1, k)
  \/ \E ch \in Chans, f \in ResponseFrames \cup {NoFrameMsg} : RecvMessage(ch, f)
  \/ Disconnect(1)

Spec == Init /\ [][Next]_vars

\* The singleton: clients made and replaced through createClient().
NextSingleton ==
  \/ CreateClient
  \/ \E c \in Clients : ConnectToTab(c)
  \/ \E ch \in Chans : WsOpen(ch)
  \/ \E ch \in Chans : WsClosed(ch)
  \/ \E c \in Clients : SendConnected(c)
  \/ \E c \in Clients, k \in Ids : Timeout(c, k)
  \/ \E ch \in Chans, f \in ResponseFrames : RecvMessage(ch, f)

SpecSingleton == InitModule /\ [][NextSingleton]_vars

\* The event bus of one connected client: the state after createClient() and
\* a connectToTab that opened, then registrations, commands and inbound frames.
InitBus ==
  /\ client = 1
  /\ nClients = 1
  /\ ws = [c \in Clients |-> IF c = 1 THEN 1 ELSE 0]
  /\ messageId = [c \in Clients |-> 1]
  /\ pendingMessages = [c \in Clients |-> {}]
  /\ eventHandlers = [c \in Clients |-> [e \in EventNames |-> <<>>]]
  /\ frameContexts = [c \in Clients |-> [f \in FrameIds |-> 0]]
  /\ contextFrames = [c \in Clients |-> [x \in Ctxs |-> NoFrame]]
  /\ readyState = [ch \in Chans |-> IF ch = 1 THEN "OPEN" ELSE "NONE"]
  /\ owner = [ch \in Chans |-> IF ch = 1 THEN 1 ELSE 0]
  /\ wire = [c \in Clients |-> <<>>]
  /\ outcome = [c \in Clients |-> [k \in Ids |-> "none"]]
  /\ value = [c \in Clients |-> [k \in Ids |-> "none"]]
  /\ settles = [c \in Clients |-> [k \in Ids |-> 0]]
  /\ timer = [c \in Clients |-> [k \in Ids |-> "none"]]
  /\ last = Idle
  /\ proc = NoProc
  /\ page = NoPage

BusSend == SentTotal < MaxBusSends /\ SendConnected(1)

NextBus ==
  \/ \E e \in UserEvents, h \in UserHandlers : On(1, e, h)
  \/ SetupFrameTracking(1)
  \/ BusSend
  \/ \E f \in InFrames : RecvMessage(1, f)

SpecBus == InitBus /\ [][NextBus]_vars

\* ==================================================================== claims
NotConnected(c) == ws[c] = 0 \/ readyState[ws[c]] # "OPEN"

Settled(c, k) == outcome[c][k] \in {"resolved", "rejected"}

\* C1: every send call that passed the connected check settles exactly once:
\* its resolve/reject callbacks are invoked at most once in all, and once its
\* 30 s timer (the backstop) has fired the call is settled, whatever responses,
\* closures and disconnect() calls came in between.
C1_SettlesExactlyOnce ==
  \A k \in Ids :
    /\ settles[1][k] <= 1
    /\ timer[1][k] = "fired" => Settled(1, k) /\ settles[1][k] = 1

\* C2: the ids the client assigned, in call order, are 1, 2, ..., N: pairwise
\* distinct, strictly increasing, starting at 1, never reused after timeouts,
\* switchTab or disconnect and a new connect.
C2_IdsIncreasing ==
  /\ Len(wire[1]) = messageId[1] - 1
  /\ \A i \in 1..Len(wire[1]) : wire[1][i] = i

C2_Witness ==
  /\ wire[1] = <<1, 2>>
  /\ value[1][1] = "timeout"
  /\ readyState[1] = "CLOSED"
  /\ ws[1] = 2
  /\ outcome[1][2] = "pending"

\* the calls of client 1 that a step settles or whose pending entry it touches
Touched ==
  { j \in Ids : \/ outcome'[1][j] # outcome[1][j]
                \/ value'[1][j] # value[1][j]
                \/ settles'[1][j] # settles[1][j]
                \/ (j \in pendingMessages'[1]) # (j \in pendingMessages[1]) }

\* C3: a response frame for id k settles only the call that was assigned id k
\* and removes only that pending entry, every other call and entry is left as
\* it was; a call is resolved only by a response frame bearing its own id, and
\* with that frame's result.
C3_OutOfOrder ==
  [][ (last'.op = "message" /\ Touched # {}) =>
        /\ \A ch \in Chans, f \in ResponseFrames :
             RecvMessage(ch, f) => Touched = {f.id}
        /\ \A k \in Touched :
             outcome'[1][k] = "resolved" =>
               \E ch \in Chans, f \in ResponseFrames :
                 /\ f.id = k /\ ~f.isError /\ value'[1][k] = f.result
                 /\ RecvMessage(ch, f)
    ]_vars

C3_Witness ==
  /\ outcome[1][2] = "resolved" /\ value[1][2] = "rb"
  /\ outcome[1][1] = "pending" /\ 1 \in pendingMessages[1]
  /\ timer[1][1] = "armed"

\* C4: a call that no response has settled is rejected with a timeout error
\* when its timer fires and its entry is gone from the pending table at that
\* moment; a response frame bearing the id of a timed-out call changes nothing.
C4_TimeoutBackstop ==
  [][ /\ \A k \in Ids :
           (Timeout(1, k) /\ outcome[1][k] = "pending") =>
             /\ outcome'[1][k] = "rejected" /\ value'[1][k] = "timeout"
             /\ k \notin pendingMessages'[1]
      /\ \A ch \in Chans, f \in ResponseFrames :
           (RecvMessage(ch, f) /\ value[owner[ch]][f.id] = "timeout") =>
             UNCHANGED <<pendingMessages, outcome, value, settles>>
    ]_vars

\* C5: when the channel the client is connected through closes unexpectedly,
\* the client is disconnected and, at that closure, every in-flight command is
\* rejected and the pending table, the maps and the listener registry are empty.
C5_CloseRejectsAll ==
  [][ \A ch \in Chans :
        (WsClosed(ch) /\ readyState[ch] = "OPEN" /\ ws[owner[ch]] = ch) =>
          /\ ws'[owner[ch]] = 0
          /\ \A k \in pendingMessages[owner[ch]] : outcome'[owner[ch]][k] = "rejected"
          /\ pendingMessages'[owner[ch]] = {}
          /\ \A e \in EventNames : eventHandlers'[owner[ch]][e] = <<>>
          /\ \A f \in FrameIds : frameContexts'[owner[ch]][f] = 0
          /\ \A x \in Ctxs : contextFrames'[owner[ch]][x] = NoFrame
    ]_vars

\* C6: createClient with a current client tears the old one down before the
\* new one is installed: every pending command of the old client is rejected,
\* its channel is closed, and the singleton then names the new client.
C6_TeardownBeforeInstall ==
  [][ (CreateClient /\ client # 0) =>
        /\ \A k \in pendingMessages[client] : outcome'[client][k] = "rejected"
        /\ ws[client] # 0 => readyState'[ws[client]] \notin {"CONNECTING", "OPEN"}
        /\ client' # client /\ ws'[client'] = 0
    ]_vars

\* C7: while the channel is absent or not open, a send fails with 'Not
\* connected' and nothing changes: no id is allocated, no pending entry is
\* registered, nothing is written to the channel, no timer is started.
C7_NotConnectedNoEffect ==
  [][ NotConnected(1) =>
        /\ messageId'[1] = messageId[1]
        /\ pendingMessages'[1] \subseteq pendingMessages[1]
        /\ wire'[1] = wire[1]
        /\ \A k \in Ids : timer[1][k] = "none" => timer'[1][k] = "none"
        /\ \A k \in Ids : outcome[1][k] = "none" => outcome'[1][k] = "none"
        /\ last'.op = "send" => last'.threw
    ]_vars

C7_Witness ==
  /\ last.op = "send" /\ last.threw
  /\ ws[1] # 0 /\ readyState[ws[1]] = "CONNECTING"
  /\ messageId[1] = 2 /\ pendingMessages[1] = {1}

\* the params a frame hands to the handlers
ParamsOf(f) == [ctx |-> f.ctx, frame |-> f.frame]

\* C8: every inbound frame goes to exactly one destination: a frame with an id
\* only to the command dispatcher (no handler is called, also when it carries a
\* method), a frame with a method and no id only to the event bus (no call is
\* settled, no pending entry removed), a frame with neither changes no table.
C8_OneDestination ==
  [][ last'.op = "message" =>
        /\ last'.hasId =>
              /\ last'.log = <<>>
              /\ UNCHANGED <<eventHandlers, frameContexts, contextFrames>>
        /\ (~last'.hasId /\ last'.hasMethod) =>
              UNCHANGED <<pendingMessages, outcome, value, settles>>
        /\ (~last'.hasId /\ ~last'.hasMethod) =>
              /\ last'.log = <<>>
              /\ UNCHANGED <<pendingMessages, outcome, value, settles,
                             eventHandlers, frameContexts, contextFrames>>
    ]_vars

C8_Witness ==
  /\ last.op = "message" /\ last.hasId /\ last.hasMethod
  /\ eventHandlers[1]["X"] # <<>> /\ eventHandlers[1][CtxCleared] # <<>>
  /\ frameContexts[1]["F1"] # 0
  /\ outcome[1][1] = "resolved" /\ pendingMessages[1] = {}

\* C9: one event frame for X calls exactly the handlers registered for X, in
\* registration order, once per registration, each with the frame's params,
\* and no handler registered for another name.
C9_FanOutOrder ==
  [][ \A f \in EventFrames :
        RecvMessage(1, f) =>
          /\ Len(last'.log) = Len(eventHandlers[1][f.method])
          /\ \A i \in 1..Len(last'.log) :
               last'.log[i] = <<eventHandlers[1][f.method][i], ParamsOf(f)>>
    ]_vars

\* C10: during the dispatch of one event frame, a handler that throws does not
\* keep the handlers registered after it from being called.
C10_ThrowIsolated ==
  [][ \A f \in EventFrames :
        (RecvMessage(1, f) /\ last'.threw) =>
          Len(last'.log) = Len(eventHandlers[1][f.method])
    ]_vars

\* ============================================================ frame methods
\* Page.getFrameTree results: a node is {frame: {id}, childFrames?: [...]}
\* (url and name, which no test of the methods reads, are left out)
Leaf(id) == [id |-> id, childFrames |-> <<>>]

FrameTrees ==
  { Leaf("F1"),
    [id |-> "F1", childFrames |-> <<Leaf("F2"), Leaf("F3")>>],
    [id |-> "F1", childFrames |-> <<[id |-> "F2", childFrames |-> <<Leaf("F3")>>]>>],
    [id |-> "F2", childFrames |-> <<[id |-> "F1", childFrames |-> <<Leaf("F4")>>], Leaf("F3")>>] }

NoTree == Leaf(NoFrame)

\* walkFrames(node, isMain): push the node, then walk its children with false
RECURSIVE WalkFrames(_, _)
WalkFrames(node, isMain) ==
  LET RECURSIVE Children(_)
      Children(cs) == IF cs = <<>> THEN <<>>
                      ELSE WalkFrames(Head(cs), FALSE) \o Children(Tail(cs))
  IN <<[id |-> node.id, isMain |-> isMain]>> \o Children(node.childFrames)

\* the walk started with no node tagged as the main frame
WalkFromNonMain(frameTree) == WalkFrames(frameTree, FALSE)

\* walkFrames(frameTree): isMain defaults to true
WalkFromRoot(frameTree) == WalkFrames(frameTree, TRUE)

\* {method, params} of the three context events: executionContextCreated names
\* a context and, in auxData, its frame (none for a worker's context),
\* executionContextDestroyed a context id, executionContextsCleared nothing
CtxFrames ==
  { [hasId |-> FALSE, id |-> 0, hasMethod |-> TRUE, method |-> CtxCreated,
     isError |-> FALSE, result |-> "none", ctx |-> x, frame |-> f]
      : x \in Ctxs, f \in {"F1", "F2", NoFrame} }
  \cup
  { [hasId |-> FALSE, id |-> 0, hasMethod |-> TRUE, method |-> CtxDestroyed,
     isError |-> FALSE, result |-> "none", ctx |-> x, frame |-> NoFrame]
      : x \in Ctxs }
  \cup
  { [hasId |-> FALSE, id |-> 0, hasMethod |-> TRUE, method |-> CtxCleared,
     isError |-> FALSE, result |-> "none", ctx |-> 0, frame |-> NoFrame] }

\* a frame method of the client at its entry
FrameProc(op) ==
  [op |-> op, pc |-> "start", frames |-> <<>>, i |-> 0, frameId |-> NoFrame,
   tree |-> NoTree, sent |-> <<>>, lookups |-> <<>>, tried |-> <<>>, ret |-> "none"]

\* this.frameContexts.get(frameId): 0 for undefined
Get(c, f) == frameContexts[c][f]

\* an evaluate that names no context
EvaluateWithoutContext(p, contextId) ==
  [p EXCEPT !.pc = "evaluate", !.sent = Append(@, <<"Runtime.evaluate", 0>>)]

\* an evaluate that names the context read before the wait
EvaluateWithFirstLookup(p, contextId) ==
  [p EXCEPT !.pc = "evaluate", !.sent = Append(@, <<"Runtime.evaluate", p.lookups[1]>>)]

\* evaluateWithContext(contextId, expression) up to its await
EvaluateWithContext(p, contextId) ==
  [p EXCEPT !.pc = "evaluate", !.sent = Append(@, <<"Runtime.evaluate", contextId>>)]

\* evaluateInFrame(frameId, expression) up to its first await: the lookup, then
\* either the evaluate command or the Page.getFrameTree of refreshFrameTree
EvaluateInFrame(c, p, f) ==
  LET q == [p EXCEPT !.frameId = f, !.sent = <<>>, !.lookups = <<Get(c, f)>>] IN
  IF Get(c, f) = 0
    THEN [q EXCEPT !.pc = "refreshTree", !.sent = Append(@, <<"Page.getFrameTree", 0>>)]
    ELSE EvaluateWithContext(q, Get(c, f))

\* a loop of findElementInFrames that lets an exception out
AfterFrameNoCatch(c, p, o) ==
  LET t == Append(p.tried, <<p.frameId, o>>) IN
  IF o = "true" THEN [p EXCEPT !.pc = "done", !.tried = t, !.ret = p.frameId]
  ELSE IF o \in {"threw", "noContext"} THEN [p EXCEPT !.pc = "done", !.tried = t, !.ret = o]
  ELSE IF p.i < Len(p.frames)
    THEN EvaluateInFrame(c, [p EXCEPT !.tried = t, !.i = @ + 1], p.frames[p.i + 1].id)
  ELSE [p EXCEPT !.pc = "done", !.tried = t, !.ret = "null"]

\* the body of the for loop of findElementInFrames once evaluateInFrame has
\* returned o or thrown: return the frame, or go on with the next one
AfterFrame(c, p, o) ==
  LET t == Append(p.tried, <<p.frameId, o>>) IN
  IF o = "true" THEN [p EXCEPT !.pc = "done", !.tried = t, !.ret = p.frameId]
  ELSE IF p.i < Len(p.frames)
    THEN EvaluateInFrame(c, [p EXCEPT !.tried = t, !.i = @ + 1], p.frames[p.i + 1].id)
  ELSE [p EXCEPT !.pc = "done", !.tried = t, !.ret = "null"]

\* evaluateInFrame returns o ("true", "false") or throws ("threw",
\* "noContext"): to its caller, or into the loop of findElementInFrames
Return(c, p, o) ==
  IF p.op = "evaluateInFrame" THEN [p EXCEPT !.pc = "done", !.ret = o]
  ELSE AfterFrame(c, p, o)

\* a frame method is called while none is in progress (one caller, awaiting
\* each call before the next)
CallListFrames(c) ==
  /\ proc.pc = "done"
  /\ proc' = [FrameProc("listFrames") EXCEPT !.pc = "listFrames",
                                            !.sent = <<<<"Page.getFrameTree", 0>>>>]
  /\ last' = Idle
  /\ UNCHANGED <<clientVars, ws, messageId, pendingMessages, eventHandlers, mapVars, chanVars, callVars, page>>

CallFindElementInFrames(c) ==
  /\ proc.pc = "done"
  /\ proc' = [FrameProc("findElementInFrames") EXCEPT !.pc = "listFrames",
                                                     !.sent = <<<<"Page.getFrameTree", 0>>>>]
  /\ last' = Idle
  /\ UNCHANGED <<clientVars, ws, messageId, pendingMessages, eventHandlers, mapVars, chanVars, callVars, page>>

CallEvaluateInFrame(c, f) ==
  /\ proc.pc = "done"
  /\ proc' = EvaluateInFrame(c, FrameProc("evaluateInFrame"), f)
  /\ last' = Idle
  /\ UNCHANGED <<clientVars, ws, messageId, pendingMessages, eventHandlers, mapVars, chanVars, callVars, page>>

\* listFrames: the Page.getFrameTree command resolves with frameTree
AnswerFrameTree(c, frameTree) ==
  /\ proc.pc = "listFrames"
  /\ LET frames == WalkFromRoot(frameTree) IN
       proc' = IF proc.op = "listFrames"
                 THEN [proc EXCEPT !.pc = "done", !.tree = frameTree, !.frames = frames,
                                   !.ret = "frames"]
                 ELSE EvaluateInFrame(c, [proc EXCEPT !.tree = frameTree, !.frames = frames,
                                                      !.i = 1], frames[1].id)
  /\ last' = Idle
  /\ UNCHANGED <<clientVars, ws, messageId, pendingMessages, eventHandlers, mapVars, chanVars, callVars, page>>

\* listFrames: the command is rejected (error response, timeout, not
\* connected); neither listFrames nor findElementInFrames catches it
RejectFrameTree(c) ==
  /\ proc.pc = "listFrames"
  /\ proc' = [proc EXCEPT !.pc = "done", !.ret = "threw"]
  /\ last' = Idle
  /\ UNCHANGED <<clientVars, ws, messageId, pendingMessages, eventHandlers, mapVars, chanVars, callVars, page>>

\* refreshFrameTree: Page.getFrameTree resolved; both maps are cleared and
\* Runtime.enable is sent (mainFrameId, which no method here reads, is left out)
AnswerRefreshTree(c) ==
  /\ proc.pc = "refreshTree"
  /\ frameContexts' = [frameContexts EXCEPT ![c] = [f \in FrameIds |-> 0]]
  /\ contextFrames' = [contextFrames EXCEPT ![c] = [x \in Ctxs |-> NoFrame]]
  /\ proc' = [proc EXCEPT !.pc = "refreshEnable", !.sent = Append(@, <<"Runtime.enable", 0>>)]
  /\ last' = Idle
  /\ UNCHANGED <<clientVars, ws, messageId, pendingMessages, eventHandlers, chanVars, callVars, page>>

\* refreshFrameTree returns: connect returns connected: true, evaluateInFrame
\* starts its 100 ms timer
AfterRefresh(p) ==
  IF p.op = "connect" THEN [p EXCEPT !.pc = "done", !.ret = [connected |-> TRUE]]
  ELSE [p EXCEPT !.pc = "sleep"]

\* refreshFrameTree: Page.getFrameTree rejected; the catch swallows it
RejectRefreshTree(c) ==
  /\ proc.pc = "refreshTree"
  /\ proc' = AfterRefresh(proc)
  /\ last' = Idle
  /\ UNCHANGED <<clientVars, ws, messageId, pendingMessages, eventHandlers, mapVars, chanVars, callVars, page>>

\* refreshFrameTree: Runtime.enable resolved, or rejected into the same catch
SettleRefreshEnable(c) ==
  /\ proc.pc = "refreshEnable"
  /\ proc' = AfterRefresh(proc)
  /\ last' = Idle
  /\ UNCHANGED <<clientVars, ws, messageId, pendingMessages, eventHandlers, mapVars, chanVars, callVars, page>>

\* evaluateInFrame: the 100 ms timer fired; the second lookup
GraceElapsed(c) ==
  /\ proc.pc = "sleep"
  /\ LET newContextId == Get(c, proc.frameId)
         p == [proc EXCEPT !.lookups = Append(@, newContextId)] IN
       proc' = IF newContextId = 0 THEN Return(c, p, "noContext")
               ELSE EvaluateWithContext(p, newContextId)
  /\ last' = Idle
  /\ UNCHANGED <<clientVars, ws, messageId, pendingMessages, eventHandlers, mapVars, chanVars, callVars, page>>

\* what evaluateWithContext ends with: result.value of the existence check,
\* or an exception (exceptionDetails in the answer, or the command rejected)
EvalOutcomes == {"true", "false", "threw"}

AnswerEvaluate(c, o) ==
  /\ proc.pc = "evaluate"
  /\ proc' = Return(c, proc, o)
  /\ last' = Idle
  /\ UNCHANGED <<clientVars, ws, messageId, pendingMessages, eventHandlers, mapVars, chanVars, callVars, page>>

\* The frame methods of one connected client: the state after connect() (which
\* ran setupFrameTracking once), then context events and method calls.
Connected ==
  /\ client = 1
  /\ nClients = 1
  /\ ws = [c \in Clients |-> IF c = 1 THEN 1 ELSE 0]
  /\ messageId = [c \in Clients |-> 1]
  /\ pendingMessages = [c \in Clients |-> {}]
  /\ eventHandlers = [c \in Clients |->
       [e \in EventNames |->
          IF c # 1 THEN <<>>
          ELSE CASE e = CtxCreated -> <<"onCreated">>
                 [] e = CtxDestroyed -> <<"onDestroyed">>
                 [] e = CtxCleared -> <<"onCleared">>
                 [] OTHER -> <<>>]]
  /\ frameContexts = [c \in Clients |-> [f \in FrameIds |-> 0]]
  /\ contextFrames = [c \in Clients |-> [x \in Ctxs |-> NoFrame]]
  /\ readyState = [ch \in Chans |-> IF ch = 1 THEN "OPEN" ELSE "NONE"]
  /\ owner = [ch \in Chans |-> IF ch = 1 THEN 1 ELSE 0]
  /\ wire = [c \in Clients |-> <<>>]
  /\ outcome = [c \in Clients |-> [k \in Ids |-> "none"]]
  /\ value = [c \in Clients |-> [k \in Ids |-> "none"]]
  /\ settles = [c \in Clients |-> [k \in Ids |-> 0]]
  /\ timer = [c \in Clients |-> [k \in Ids |-> "none"]]
  /\ last = Idle

InitFrames ==
  /\ Connected
  /\ proc = NoProc
  /\ page = NoPage

NextFrames ==
  \/ \E f \in CtxFrames : RecvMessage(1, f)
  \/ CallListFrames(1)
  \/ CallFindElementInFrames(1)
  \/ \E f \in FrameIds : CallEvaluateInFrame(1, f)
  \/ \E t \in FrameTrees : AnswerFrameTree(1, t)
  \/ RejectFrameTree(1)
  \/ AnswerRefreshTree(1)
  \/ RejectRefreshTree(1)
  \/ SettleRefreshEnable(1)
  \/ GraceElapsed(1)
  \/ \E o \in EvalOutcomes : AnswerEvaluate(1, o)

SpecFrames == InitFrames /\ [][NextFrames]_vars

\* C11: once the tracking handlers are registered, processing a context-created
\* event for frame F with context C leaves the map giving C for F (and F for
\* C); processing a context-destroyed event for C leaves the frame recorded
\* for C, and C itself, without an entry; processing an all-contexts-cleared
\* event leaves every frame and every context without an entry.
C11_MapFollowsEvents ==
  [][ last'.op = "message" =>
        \A f \in CtxFrames :
          RecvMessage(1, f) =>
            /\ (f.method = CtxCreated /\ f.frame # NoFrame) =>
                 /\ frameContexts'[1][f.frame] = f.ctx
                 /\ contextFrames'[1][f.ctx] = f.frame
            /\ f.method = CtxDestroyed =>
                 /\ \A F \in FrameIds :
                      contextFrames[1][f.ctx] = F => frameContexts'[1][F] = 0
                 /\ contextFrames'[1][f.ctx] = NoFrame
            /\ f.method = CtxCleared =>
                 /\ \A F \in FrameIds : frameContexts'[1][F] = 0
                 /\ \A x \in Ctxs : contextFrames'[1][x] = NoFrame
    ]_vars

\* context 1 of frame F1 has just been destroyed while frame F2 keeps context 2
C11_Witness ==
  /\ last.op = "message"
  /\ last.log = <<<<"onDestroyed", [ctx |-> 1, frame |-> NoFrame]>>>>
  /\ frameContexts[1]["F1"] = 0 /\ contextFrames[1][1] = NoFrame
  /\ frameContexts[1]["F2"] = 2 /\ contextFrames[1][2] = "F2"

\* ============================================================== page methods
MaxValueLen == 2   \* characters an element's value holds in a run

\* the texts typed, as character sequences
Texts == {<<"a">>, <<"b">>}

\* a JS value that is a string, or null
Just(v) == [null |-> FALSE, v |-> v]

Null == [null |-> TRUE, v |-> <<>>]

\* values an element may hold when a run starts
ElValues == {<<>>, <<"b">>}

\* the element the selector names: present or not, its value, and whether an
\* assignment to its value sticks (a framework may restore the old value)
Elements == [present : BOOLEAN, value : ElValues, accepts : BOOLEAN]

\* what a method has returned: nothing yet, or an exception
NoResult == [none |-> TRUE]

Threw == [threw |-> TRUE]

\* a method of the client that drives the page, at its entry
PageProc(op) ==
  [op |-> op, pc |-> "start", text |-> <<>>, clear |-> FALSE, delay |-> 0, k |-> 0,
   intended |-> <<>>, result |-> "none", typed |-> FALSE, fullPage |-> FALSE,
   pressAt |-> <<>>, releaseAt |-> <<>>, action |-> "none", index |-> 0, ran |-> FALSE,
   sent |-> <<>>, answered |-> <<>>, ret |-> NoResult]

\* send(method, ...) up to the await: the command is on the wire
Await(p, pc, method) == [p EXCEPT !.pc = pc, !.sent = Append(@, method)]

\* the method returns ret, or throws when ret is Threw
Done(p, ret) == [p EXCEPT !.pc = "done", !.ret = ret]

\* no box model: the element is not rendered
NoBox == <<>>

\* the page has no global monaco
NoMonaco == [defined |-> FALSE, editors |-> <<>>]

\* the page one client drives: the element the selector names, the box model
\* the browser reports for it, the device-metrics override, the Monaco registry
PageOf(el, box, monaco) ==
  [kind |-> "page", el |-> el, box |-> box, override |-> FALSE, monaco |-> monaco]

\* a step of a page method: the method's state and the page change together
PageStep(p, pg) ==
  /\ proc' = p
  /\ page' = pg
  /\ last' = Idle
  /\ UNCHANGED <<clientVars, ws, messageId, pendingMessages, eventHandlers, mapVars, chanVars, callVars>>

\* the script of type() and of cdp_interact 'type' run in the page: not found,
\* or focus, assign newValue through the native setter, fire the events and
\* return { success: true, value: el.value }
SetValueScript(el, newValue) ==
  IF ~el.present
    THEN [el |-> el, result |-> [success |-> FALSE, value |-> Null]]
    ELSE LET v == IF el.accepts THEN newValue ELSE el.value IN
         [el |-> [el EXCEPT !.value = v], result |-> [success |-> TRUE, value |-> Just(v)]]

\* clear ? text : el.value + text
NewValue(el, text, clear) == IF clear THEN text ELSE el.value \o text

\* document.querySelector(sel)?.value || null
ReadBack(el) == IF el.present /\ el.value # <<>> THEN Just(el.value) ELSE Null

\* type(): return result?.success === true, to the caller or to cdp_interact,
\* which goes on with its read-back
TypeReturn(p) ==
  LET typed == p.result.success = TRUE IN
  IF p.op = "type" THEN Done(p, [success |-> typed])
  ELSE Await([p EXCEPT !.typed = typed], "readBack", "Runtime.evaluate")

\* type(): after the script, the keystroke loop when a delay is asked for
AfterTypeScript(p) ==
  IF p.delay > 0 /\ p.text # <<>>
    THEN Await([p EXCEPT !.k = 1], "keyDown", "Input.dispatchKeyEvent")
    ELSE TypeReturn(p)

\* CDPClient.type(selector, text, {delay, clear}) up to the await of evaluate
CallType(c, text, clear, delay) ==
  /\ proc.pc = "done"
  /\ Len(page.el.value) + Len(text) <= MaxValueLen
  /\ PageStep(Await([PageProc("type") EXCEPT !.text = text, !.clear = clear, !.delay = delay],
                    "typeEval", "Runtime.evaluate"), page)

\* type(): the script ran and evaluate resolved with its value
TypeScriptRan(c) ==
  /\ proc.pc = "typeEval"
  /\ LET newValue == NewValue(page.el, proc.text, proc.clear)
         r == SetValueScript(page.el, newValue) IN
       PageStep(AfterTypeScript([proc EXCEPT !.result = r.result, !.intended = newValue]),
                [page EXCEPT !.el = r.el])

\* type(): a key event was answered: keyDown, keyUp, then the delay timer
KeyAnswered(c) ==
  /\ proc.pc \in {"keyDown", "keyUp"}
  /\ PageStep(IF proc.pc = "keyDown" THEN Await(proc, "keyUp", "Input.dispatchKeyEvent")
              ELSE [proc EXCEPT !.pc = "keySleep"], page)

\* type(): the delay timer fired: the next character, or the return
KeyDelayElapsed(c) ==
  /\ proc.pc = "keySleep"
  /\ PageStep(IF proc.k < Len(proc.text)
                THEN Await([proc EXCEPT !.k = @ + 1], "keyDown", "Input.dispatchKeyEvent")
                ELSE TypeReturn(proc), page)

\* cdp_interact action 'type' with a value: '' is refused, otherwise the
\* scroll-into-view script is evaluated first
CallInteractType(c, val, delay) ==
  /\ proc.pc = "done"
  /\ PageStep(IF val = <<>>
                THEN Done(PageProc("interactType"), [error |-> "value required for type action"])
                ELSE Await([PageProc("interactType") EXCEPT !.text = val, !.clear = TRUE,
                                                          !.delay = delay, !.intended = val],
                           "scroll", "Runtime.evaluate"), page)

\* cdp_interact 'type': the scroll script ran; the native-setter script is sent
ScrollRan(c) ==
  /\ proc.pc = "scroll"
  /\ PageStep(Await(proc, "jsType", "Runtime.evaluate"), page)

\* cdp_interact 'type': the native-setter script ran; on success the result is
\* returned as it is, otherwise CDPClient.type is called with clear: true
JsTypeRan(c) ==
  /\ proc.pc = "jsType"
  /\ LET r == SetValueScript(page.el, proc.text) IN
       PageStep(IF r.result.success
                  THEN Done(proc, [success |-> TRUE, method |-> "js",
                                   value |-> r.result.value, verified |-> TRUE])
                  ELSE Await(proc, "typeEval", "Runtime.evaluate"),
                [page EXCEPT !.el = r.el])

\* cdp_interact 'type': the read-back after CDPClient.type
ReadBackRan(c) ==
  /\ proc.pc = "readBack"
  /\ LET actualValue == ReadBack(page.el)
         verified == actualValue = Just(proc.text) IN
       PageStep(Done(proc, [success |-> proc.typed /\ verified, method |-> "cdp",
                            expected |-> proc.text, actual |-> actualValue,
                            verified |-> verified]), page)

\* a command of type() or of cdp_interact 'type' is rejected (error response,
\* exception in the page, timeout, not connected): neither catches it
TypeRejected(c) ==
  /\ proc.op \in {"type", "interactType"}
  /\ proc.pc \in {"typeEval", "keyDown", "keyUp", "scroll", "jsType", "readBack"}
  /\ PageStep(Done(proc, Threw), page)

\* the page inserts the element the selector names
ElementAppears ==
  /\ ~page.el.present
  /\ PageStep(proc, [page EXCEPT !.el.present = TRUE])

\* delay option of type: none, or some milliseconds per character
Delays == {0, 50}

\* CDPClient.type and cdp_interact 'type' of a connected client against one
\* element of the page
InitType ==
  /\ Connected
  /\ proc = NoProc
  /\ \E el \in Elements : page = PageOf(el, NoBox, NoMonaco)

NextType ==
  \/ \E text \in Texts, clear \in BOOLEAN, delay \in Delays : CallType(1, text, clear, delay)
  \/ TypeScriptRan(1)
  \/ KeyAnswered(1)
  \/ KeyDelayElapsed(1)
  \/ \E val \in Texts \cup {<<>>}, delay \in Delays : CallInteractType(1, val, delay)
  \/ ScrollRan(1)
  \/ JsTypeRan(1)
  \/ ReadBackRan(1)
  \/ TypeRejected(1)
  \/ ElementAppears

SpecType == InitType /\ [][NextType]_vars

\* C12: type (CDPClient.type, and cdp_interact 'type' built on it) reports
\* success only if the element's value, read back after the typing, equals the
\* intended value.
C12_SuccessOnlyIfVerified ==
  (/\ proc.op \in {"type", "interactType"} /\ proc.pc = "done"
   /\ "success" \in DOMAIN proc.ret /\ proc.ret.success)
    => (page.el.present /\ page.el.value = proc.intended)

\* ------------------------------------------------------------- screenshot
\* screenshot({fullPage}) up to its first await (format and quality, which
\* only go into the capture command, are left out)
CallScreenshot(c, fullPage) ==
  /\ proc.pc = "done"
  /\ PageStep(IF fullPage
                THEN Await([PageProc("screenshot") EXCEPT !.fullPage = TRUE],
                           "metrics", "Page.getLayoutMetrics")
                ELSE Await(PageProc("screenshot"), "capture", "Page.captureScreenshot"), page)

\* Page.getLayoutMetrics resolved: the override command is sent
MetricsAnswered(c) ==
  /\ proc.pc = "metrics"
  /\ PageStep(Await(proc, "override", "Emulation.setDeviceMetricsOverride"), page)

\* Emulation.setDeviceMetricsOverride resolved: the override is in force, the
\* capture command is sent
OverrideAnswered(c) ==
  /\ proc.pc = "override"
  /\ PageStep(Await(proc, "capture", "Page.captureScreenshot"), [page EXCEPT !.override = TRUE])

\* the image Page.captureScreenshot gives: of the viewport, or of the
\* overridden size
Capture(pg) == IF pg.override THEN [data |-> "fullSize"] ELSE [data |-> "viewportSize"]

\* Page.captureScreenshot resolved with data; with fullPage the clear command
\* is sent, otherwise data is returned
CaptureAnswered(c) ==
  /\ proc.pc = "capture"
  /\ PageStep(IF proc.fullPage
                THEN Await([proc EXCEPT !.result = Capture(page)],
                           "clear", "Emulation.clearDeviceMetricsOverride")
                ELSE Done(proc, Capture(page)), page)

\* Emulation.clearDeviceMetricsOverride resolved: data is returned
ClearAnswered(c) ==
  /\ proc.pc = "clear"
  /\ PageStep(Done(proc, proc.result), [page EXCEPT !.override = FALSE])

\* a command of screenshot is rejected (error response, timeout, not
\* connected): the exception leaves screenshot from where it is
ScreenshotRejected(c) ==
  /\ proc.pc \in {"metrics", "override", "capture", "clear"}
  /\ PageStep(Done(proc, Threw), page)

\* the commands a method has sent
Sent(p) == { p.sent[i] : i \in 1..Len(p.sent) }

\* ------------------------------------------------------------------- click
\* box.content of DOM.getBoxModel: the quad x1,y1, x2,y2, x3,y3, x4,y4
Boxes == { <<0, 0, 4, 0, 4, 2, 0, 2>>, <<1, 3, 4, 3, 4, 8, 1, 8>> }

\* the top-left corner instead of the centre
TopLeft(content) == <<2 * content[1], 2 * content[2]>>

\* x = (content[0] + content[2]) / 2, y = (content[1] + content[5]) / 2,
\* in half pixels, so that no division is needed
Centre(content) == <<content[1] + content[3], content[2] + content[6]>>

\* the command answered is noted: the last one sent
Answered(p) == [p EXCEPT !.answered = Append(@, p.sent[Len(p.sent)])]

\* click(selector) up to the first await: querySelector calls getDocument
CallClick(c) ==
  /\ proc.pc = "done"
  /\ PageStep(Await(PageProc("click"), "getDocument", "DOM.getDocument"), page)

\* querySelector: DOM.getDocument resolved, DOM.querySelector is sent
DocumentAnswered(c) ==
  /\ proc.pc = "getDocument"
  /\ PageStep(Await(Answered(proc), "querySelector", "DOM.querySelector"), page)

\* querySelector: DOM.querySelector resolved with nodeId (0 when nothing
\* matches), return nodeId || null; click returns false for null and calls
\* getBoxModel otherwise
QuerySelectorAnswered(c) ==
  /\ proc.pc = "querySelector"
  /\ PageStep(IF page.el.present
                THEN Await(Answered(proc), "getBoxModel", "DOM.getBoxModel")
                ELSE Done(Answered(proc), [success |-> FALSE]), page)

\* querySelector: DOM.querySelector rejected; the catch returns null
QuerySelectorRejected(c) ==
  /\ proc.pc = "querySelector"
  /\ PageStep(Done(proc, [success |-> FALSE]), page)

\* getBoxModel resolved with model: the press is sent at the centre
BoxModelAnswered(c) ==
  /\ proc.pc = "getBoxModel"
  /\ page.box # NoBox
  /\ PageStep(Await([Answered(proc) EXCEPT !.pressAt = Centre(page.box)],
                    "pressed", "Input.dispatchMouseEvent mousePressed"), page)

\* getBoxModel: DOM.getBoxModel rejected (an element that is not rendered has
\* no box model); the catch returns null and click returns false
BoxModelRejected(c) ==
  /\ proc.pc = "getBoxModel"
  /\ PageStep(Done(proc, [success |-> FALSE]), page)

\* the press resolved: the release is sent with the same x, y
PressAnswered(c) ==
  /\ proc.pc = "pressed"
  /\ PageStep(Await([Answered(proc) EXCEPT !.releaseAt = proc.pressAt],
                    "released", "Input.dispatchMouseEvent mouseReleased"), page)

\* the release resolved: click returns true
ReleaseAnswered(c) ==
  /\ proc.pc = "released"
  /\ PageStep(Done(Answered(proc), [success |-> TRUE]), page)

\* DOM.getDocument or a mouse event rejected: nothing in click catches it
ClickRejected(c) ==
  /\ proc.pc \in {"getDocument", "pressed", "released"}
  /\ PageStep(Done(proc, Threw), page)

\* ------------------------------------------------------------ monacoEditor
MaxEditors == 2   \* Monaco editor instances on the page

MonacoActions == {"detect", "getValue", "setValue", "clear"}

\* the page's Monaco registry: absent, or the values of its editors' models
MonacoStates ==
  {NoMonaco} \cup
  { [defined |-> TRUE, editors |-> [i \in 1..n |-> <<"b">>]] : n \in 0..MaxEditors }

\* an exception in the page script: Runtime.evaluate answers with
\* exceptionDetails and evaluate throws
ScriptException == [exception |-> TRUE]

\* the value of detectScript / getValueScript / setValueScript / clearScript
\* for editorIndex = index, and the registry after it
MonacoScript(action, m, index, code) ==
  CASE action = "detect" ->
         [m |-> m,
          result |-> IF ~m.defined
                       THEN [found |-> FALSE, error |-> "Monaco editor not loaded on page"]
                     ELSE IF m.editors = <<>>
                       THEN [found |-> FALSE, error |-> "No Monaco editor instances found"]
                     ELSE [found |-> TRUE, count |-> Len(m.editors)]]
    [] action = "getValue" ->
         [m |-> m,
          result |-> IF ~m.defined THEN ScriptException
                     ELSE IF m.editors = <<>> THEN Null
                     ELSE IF index >= Len(m.editors) THEN [error |-> "out of range"]
                     ELSE Just(m.editors[index + 1])]
    [] OTHER ->
         IF ~m.defined THEN [m |-> m, result |-> ScriptException]
         ELSE IF m.editors = <<>>
           THEN [m |-> m, result |-> [success |-> FALSE, error |-> "No editor found"]]
         ELSE IF index >= Len(m.editors)
           THEN [m |-> m, result |-> [success |-> FALSE, error |-> "out of range"]]
         ELSE [m |-> [m EXCEPT !.editors[index + 1] = IF action = "clear" THEN <<>> ELSE code],
               result |-> [success |-> TRUE, editorIndex |-> index]]

\* monacoEditor(action, value, editorIndex): setValue without a value throws
\* before anything is sent, every other call evaluates its script
CallMonaco(c, action, hasValue, code, index) ==
  /\ proc.pc = "done"
  /\ LET p == [PageProc("monacoEditor") EXCEPT !.action = action, !.index = index,
                                               !.text = IF hasValue THEN code ELSE <<>>] IN
       PageStep(IF action = "setValue" /\ ~hasValue THEN Done(p, Threw)
                ELSE Await(p, "monacoEval", "Runtime.evaluate"), page)

\* the script ran in the page: evaluate returns its value, or throws on
\* exceptionDetails
MonacoScriptRan(c) ==
  /\ proc.pc = "monacoEval"
  /\ LET r == MonacoScript(proc.action, page.monaco, proc.index, proc.text) IN
       PageStep(Done([proc EXCEPT !.ran = TRUE],
                     IF r.result = ScriptException THEN Threw ELSE r.result),
                [page EXCEPT !.monaco = r.m])

\* Runtime.evaluate is rejected before any script result
MonacoRejected(c) ==
  /\ proc.pc = "monacoEval"
  /\ PageStep(Done(proc, Threw), page)

\* screenshot, click and monacoEditor of a connected client against one page
InitPage ==
  /\ Connected
  /\ proc = NoProc
  /\ \E present \in BOOLEAN, box \in Boxes \cup {NoBox}, m \in MonacoStates :
       page = PageOf([present |-> present, value |-> <<>>, accepts |-> TRUE], box, m)

NextPage ==
  \/ \E fullPage \in BOOLEAN : CallScreenshot(1, fullPage)
  \/ MetricsAnswered(1)
  \/ OverrideAnswered(1)
  \/ CaptureAnswered(1)
  \/ ClearAnswered(1)
  \/ ScreenshotRejected(1)
  \/ CallClick(1)
  \/ DocumentAnswered(1)
  \/ QuerySelectorAnswered(1)
  \/ QuerySelectorRejected(1)
  \/ BoxModelAnswered(1)
  \/ BoxModelRejected(1)
  \/ PressAnswered(1)
  \/ ReleaseAnswered(1)
  \/ ClickRejected(1)
  \/ \E action \in MonacoActions, hasValue \in BOOLEAN, code \in Texts, index \in 0..MaxEditors :
       CallMonaco(1, action, hasValue, code, index)
  \/ MonacoScriptRan(1)
  \/ MonacoRejected(1)

SpecPage == InitPage /\ [][NextPage]_vars

\* C13: a screenshot call with fullPage that has set the device-metrics
\* override and sent the capture command has sent the clear-override command
\* by the time it returns or throws, whether the capture succeeded or failed.
C13_OverrideAlwaysCleared ==
  (/\ proc.op = "screenshot" /\ proc.pc = "done" /\ proc.fullPage
   /\ "Page.captureScreenshot" \in Sent(proc))
    => "Emulation.clearDeviceMetricsOverride" \in Sent(proc)

\* the commands of click, in the order it sends them
ClickCommands ==
  <<"DOM.getDocument", "DOM.querySelector", "DOM.getBoxModel",
    "Input.dispatchMouseEvent mousePressed", "Input.dispatchMouseEvent mouseReleased">>

\* C17: click sends no mouse event and, once the lookup has been answered,
\* returns false without raising when the element is absent or has no box
\* model; otherwise it sends one press and then one release, both at the
\* centre of the content quad, the release only after the press was answered,
\* and returns true only after both.
C17_ClickFalseOrPressRelease ==
  proc.op = "click" =>
    /\ Len(proc.sent) <= Len(ClickCommands)
    /\ proc.sent = SubSeq(ClickCommands, 1, Len(proc.sent))
    /\ (~page.el.present \/ page.box = NoBox) =>
          /\ Len(proc.sent) <= 3
          /\ (proc.pc = "done" /\ Len(proc.sent) >= 2) => proc.ret = [success |-> FALSE]
    /\ Len(proc.sent) >= 4 =>
          proc.pressAt = <<page.box[1] + page.box[3], page.box[2] + page.box[6]>>
    /\ Len(proc.sent) = 5 =>
          /\ proc.releaseAt = proc.pressAt
          /\ Len(proc.answered) >= 4 /\ proc.answered[4] = ClickCommands[4]
    /\ (proc.pc = "done" /\ proc.ret = [success |-> TRUE]) => proc.answered = ClickCommands
    /\ (proc.pc = "done" /\ proc.ret = [success |-> FALSE]) => Len(proc.sent) \in {2, 3}

\* a click on an element that is in the document but has no box model
C17_Witness ==
  /\ proc.op = "click" /\ proc.pc = "done" /\ proc.ret = [success |-> FALSE]
  /\ page.el.present /\ page.box = NoBox
  /\ proc.sent = SubSeq(ClickCommands, 1, 3)

\* C20: a Monaco action whose script ran against a page without the registry,
\* without editor instances, or with fewer instances than the index asks for,
\* returns a result that carries an error field; it does not raise.
C20_MonacoFailsCleanly ==
  (/\ proc.op = "monacoEditor" /\ proc.pc = "done" /\ proc.ran
   /\ \/ ~page.monaco.defined
      \/ page.monaco.editors = <<>>
      \/ proc.index >= Len(page.monaco.editors))
    => "error" \in DOMAIN proc.ret

\* ================================================================= connect
MaxTabs == 3   \* entries of the /json tab list

\* an entry of /json: its id (its place in the list), its type, and whether
\* it carries a webSocketDebuggerUrl
TabKinds == { [type |-> "page", url |-> TRUE], [type |-> "page", url |-> FALSE],
              [type |-> "service_worker", url |-> TRUE] }

TabLists ==
  UNION { { [i \in 1..n |-> [id |-> i, type |-> k[i].type, url |-> k[i].url]] :
              k \in [1..n -> TabKinds] } : n \in 0..MaxTabs }

\* the tabIndex argument: default 0, a place in the list, or far beyond it
TabIndexes == 0..MaxTabs \cup {99}

\* tabs.filter(t => t.type === 'page')
PageTabs(tabs) == SelectSeq(tabs, LAMBDA t : t.type = "page")

\* the index itself, short of the list's end or not
NoClamp(tabIndex, length) == tabIndex

\* Math.min(tabIndex, pageTabs.length - 1)
Clamp(tabIndex, length) == IF tabIndex < length - 1 THEN tabIndex ELSE length - 1

\* pageTabs[Math.min(tabIndex, pageTabs.length - 1)]; undefined is no tab
NoTab == [id |-> 0, type |-> "none", url |-> FALSE]

TargetTab(pageTabs, tabIndex) ==
  LET i == Clamp(tabIndex, Len(pageTabs)) + 1 IN
  IF i \in 1..Len(pageTabs) THEN pageTabs[i] ELSE NoTab

ConnectProc(tabIndex) ==
  [op |-> "connect", pc |-> "version", tabIndex |-> tabIndex, tabs |-> <<>>,
   targetTab |-> NoTab, dialled |-> 0, sent |-> <<>>, ret |-> NoResult]

\* connect() returns { connected: false, error }
NotConnectedResult(p, error) ==
  [p EXCEPT !.pc = "done", !.ret = [connected |-> FALSE, error |-> error]]

\* a step of connect that leaves the channel alone
ConnectStep(p) ==
  /\ proc' = p
  /\ last' = Idle
  /\ UNCHANGED <<clientVars, ws, messageId, pendingMessages, eventHandlers, mapVars, chanVars, callVars, page>>

\* connect(tabIndex) on a client fresh from createClient(), up to the fetch
\* of /json/version
CallConnect(c, tabIndex) ==
  /\ Created(c) /\ proc.op = "none"
  /\ ConnectStep(ConnectProc(tabIndex))

\* /json/version answered: not ok ends connect, ok fetches /json
VersionAnswered(c, ok) ==
  /\ proc.op = "connect" /\ proc.pc = "version"
  /\ ConnectStep(IF ok THEN [proc EXCEPT !.pc = "tabs"]
                 ELSE NotConnectedResult(proc, "Could not connect to CDP endpoint"))

\* a fetch (or the parsing of its body) throws: into the catch of connect
FetchRejected(c) ==
  /\ proc.op = "connect" /\ proc.pc \in {"version", "tabs"}
  /\ ConnectStep(NotConnectedResult(proc, "fetch"))

\* /json answered with tabs: filter, select, and dial the selected tab's
\* webSocketDebuggerUrl (dialled: the id of the tab whose URL went to new WebSocket)
TabsAnswered(c, tabs) ==
  /\ proc.op = "connect" /\ proc.pc = "tabs"
  /\ LET pageTabs == PageTabs(tabs)
         targetTab == TargetTab(pageTabs, proc.tabIndex)
         p == [proc EXCEPT !.tabs = tabs, !.targetTab = targetTab] IN
       IF pageTabs = <<>>
         THEN /\ proc' = NotConnectedResult(p, "No page tabs available")
              /\ UNCHANGED <<ws, chanVars>>
       ELSE IF ~targetTab.url
         THEN /\ proc' = NotConnectedResult(p, "Tab does not have WebSocket debugger URL")
              /\ UNCHANGED <<ws, chanVars>>
       ELSE /\ HasFreeChan
            /\ NewWebSocket(c, readyState)
            /\ proc' = [p EXCEPT !.pc = "dial", !.dialled = targetTab.id]
  /\ last' = Idle
  /\ UNCHANGED <<clientVars, messageId, pendingMessages, eventHandlers, mapVars, callVars, page>>

\* connectToTab resolved (the channel opened): currentTabId is set and
\* Page.enable is sent
ConnectOpened(c) ==
  /\ proc.op = "connect" /\ proc.pc = "dial"
  /\ IsOpen(c)
  /\ ConnectStep([proc EXCEPT !.pc = "Page.enable", !.sent = Append(@, <<"Page.enable", 0>>)])

\* connectToTab rejected: the channel's 'error', after which its 'close' has
\* set this.ws = null
ConnectFailed(c) ==
  /\ proc.op = "connect" /\ proc.pc = "dial"
  /\ ws[c] = 0
  /\ ConnectStep(NotConnectedResult(proc, "WebSocket error"))

\* the domains connect enables, in order
Enables == <<"Page.enable", "DOM.enable", "Runtime.enable">>

\* an enable command resolved: the next one is sent; after the last,
\* setupFrameTracking() runs and refreshFrameTree sends Page.getFrameTree
EnableAnswered(c) ==
  /\ proc.op = "connect" /\ \E i \in 1..Len(Enables) : proc.pc = Enables[i]
  /\ IsOpen(c)
  /\ LET i == CHOOSE j \in 1..Len(Enables) : proc.pc = Enables[j] IN
       IF i < Len(Enables)
         THEN /\ proc' = [proc EXCEPT !.pc = Enables[i + 1],
                                      !.sent = Append(@, <<Enables[i + 1], 0>>)]
              /\ UNCHANGED eventHandlers
         ELSE /\ proc' = [proc EXCEPT !.pc = "refreshTree",
                                      !.sent = Append(@, <<"Page.getFrameTree", 0>>)]
              /\ eventHandlers' = TrackingHandlers(c)
  /\ last' = Idle
  /\ UNCHANGED <<clientVars, ws, messageId, pendingMessages, mapVars, chanVars, callVars, page>>

\* an enable command rejected (error response, timeout, or 'Not connected'
\* from send): the catch of connect returns connected: false and does
\* nothing else
EnableRejected(c) ==
  /\ proc.op = "connect" /\ \E i \in 1..Len(Enables) : proc.pc = Enables[i]
  /\ ConnectStep(NotConnectedResult(proc, "send"))

\* connect() of the client createClient() made, against a browser whose
\* answers and channel go any way they can
NextConnect ==
  \/ \E tabIndex \in TabIndexes : CallConnect(1, tabIndex)
  \/ \E ok \in BOOLEAN : VersionAnswered(1, ok)
  \/ FetchRejected(1)
  \/ \E tabs \in TabLists : TabsAnswered(1, tabs)
  \/ \E ch \in Chans : WsOpen(ch)
  \/ \E ch \in Chans : WsClosed(ch)
  \/ ConnectOpened(1)
  \/ ConnectFailed(1)
  \/ EnableAnswered(1)
  \/ EnableRejected(1)
  \/ AnswerRefreshTree(1)
  \/ RejectRefreshTree(1)
  \/ SettleRefreshEnable(1)

SpecConnect == Init /\ [][NextConnect]_vars

\* C14: once /json has answered, connect has kept the entries of type 'page';
\* with none it returns connected: false and dials nothing; otherwise the tab
\* it selects is the page tab at index min(tabIndex, count - 1), counted among
\* the page tabs only, and the tab it dials is that one.
C14_ClampedPageTab ==
  (proc.op = "connect" /\ proc.pc \notin {"version", "tabs"}) =>
    LET pages == { j \in 1..Len(proc.tabs) : proc.tabs[j].type = "page" }
        count == Cardinality(pages)
        index == IF proc.tabIndex >= count THEN count - 1 ELSE proc.tabIndex
    IN IF count = 0
         THEN /\ proc.pc = "done" /\ proc.ret.connected = FALSE
              /\ proc.dialled = 0 /\ ws[1] = 0
         ELSE /\ proc.targetTab.id \in pages
              /\ Cardinality({ j \in pages : j < proc.targetTab.id }) = index
              /\ proc.dialled \in {0, proc.targetTab.id}
              /\ proc.dialled = 0 <=> ~proc.targetTab.url

\* connect(99) against three tabs of which the first and the last are pages
\* has dialled the last
C14_Witness ==
  /\ proc.op = "connect" /\ proc.tabIndex = 99 /\ proc.pc = "done"
  /\ Len(proc.tabs) = 3 /\ proc.tabs[2].type # "page"
  /\ proc.dialled = 3 /\ proc.ret = [connected |-> TRUE]

\* C16: a connect that returns connected: false leaves the client
\* disconnected: it has no open channel and isConnected() is false.
C16_FailedConnectDisconnected ==
  (proc.op = "connect" /\ proc.pc = "done" /\ proc.ret.connected = FALSE) =>
    /\ ~IsOpen(1)
    /\ \A ch \in Chans : owner[ch] = 1 => readyState[ch] # "OPEN"

\* ==================================================== claims: frame methods
\* the frames tried by findElementInFrames so far did not report the element
NoneFound(tried) == \A i \in 1..Len(tried) : tried[i][2] # "true"

\* C15: findElementInFrames tries the frames one by one in the order of
\* listFrames and stops at the first whose evaluation is true, which it
\* returns; a frame whose evaluation throws (or that has no context) is
\* skipped and the next one is tried; it returns null only after every frame
\* was tried and none was true.
C15_FirstMatchInOrder ==
  (proc.op = "findElementInFrames" /\ proc.frames # <<>>) =>
    /\ proc.frames[1].isMain
    /\ Len(proc.tried) <= Len(proc.frames)
    /\ \A i \in 1..Len(proc.tried) : proc.tried[i][1] = proc.frames[i].id
    /\ NoneFound(SubSeq(proc.tried, 1, Len(proc.tried) - 1))
    /\ IF proc.pc = "done"
         THEN IF proc.ret = "null"
                THEN Len(proc.tried) = Len(proc.frames) /\ NoneFound(proc.tried)
                ELSE /\ proc.tried # <<>>
                     /\ proc.tried[Len(proc.tried)] = <<proc.ret, "true">>
         ELSE /\ NoneFound(proc.tried)
              /\ proc.i = Len(proc.tried) + 1
              /\ proc.frameId = proc.frames[proc.i].id

\* the main frame threw, the second frame reported the element and was
\* returned; the third was not tried
C15_Witness ==
  /\ proc.op = "findElementInFrames" /\ proc.pc = "done" /\ proc.ret = "F2"
  /\ Len(proc.frames) = 3
  /\ proc.tried = << <<"F1", "threw">>, <<"F2", "true">> >>

\* the Runtime.evaluate commands among the commands sent
Evaluates(sent) == SelectSeq(sent, LAMBDA m : m[1] = "Runtime.evaluate")

\* C18: evaluateInFrame looks the frame up; with an entry it sends one evaluate
\* command carrying that context id and nothing else; without one it sends one
\* Page.getFrameTree (the refresh), waits for the timer, looks the frame up a
\* second and last time, and then either fails with 'No execution context for
\* frame' having sent no evaluate, or sends one evaluate carrying the id the
\* second lookup gave.
C18_RefreshRetryOnce ==
  proc.op = "evaluateInFrame" =>
    /\ Len(proc.lookups) \in {1, 2}
    /\ Len(SelectSeq(proc.sent, LAMBDA m : m[1] = "Page.getFrameTree")) <= 1
    /\ proc.lookups[1] # 0 =>
         /\ Len(proc.lookups) = 1
         /\ proc.sent = << <<"Runtime.evaluate", proc.lookups[1]>> >>
    /\ proc.lookups[1] = 0 =>
         /\ proc.sent[1] = <<"Page.getFrameTree", 0>>
         /\ Len(proc.lookups) = 1 =>
              /\ proc.pc \in {"refreshTree", "refreshEnable", "sleep"}
              /\ Evaluates(proc.sent) = <<>>
         /\ (Len(proc.lookups) = 2 /\ proc.lookups[2] = 0) =>
              /\ proc.pc = "done" /\ proc.ret = "noContext"
              /\ Evaluates(proc.sent) = <<>>
         /\ (Len(proc.lookups) = 2 /\ proc.lookups[2] # 0) =>
              /\ Evaluates(proc.sent) = << <<"Runtime.evaluate", proc.lookups[2]>> >>
              /\ proc.sent[Len(proc.sent)] = <<"Runtime.evaluate", proc.lookups[2]>>
    /\ (proc.pc = "done" /\ proc.ret = "noContext") => proc.lookups = <<0, 0>>

\* the frame had no entry, context 2 was created for it during the wait, and
\* the evaluate went to context 2
C18_Witness ==
  /\ proc.op = "evaluateInFrame" /\ proc.pc = "done" /\ proc.ret = "true"
  /\ proc.lookups = <<0, 2>>
  /\ proc.sent = << <<"Page.getFrameTree", 0>>, <<"Runtime.enable", 0>>, <<"Runtime.evaluate", 2>> >>

\* the places of a tree's nodes: the child indices from the root down
RECURSIVE Paths(_)
Paths(t) ==
  {<<>>} \cup UNION { { <<i>> \o q : q \in Paths(t.childFrames[i]) } :
                        i \in 1..Len(t.childFrames) }

RECURSIVE NodeAt(_, _)
NodeAt(t, q) == IF q = <<>> THEN t ELSE NodeAt(t.childFrames[Head(q)], Tail(q))

\* p comes before q depth-first: p is an ancestor of q, or where they part p
\* takes the earlier child
Before(p, q) ==
  \E k \in 0..Len(p) :
    /\ k <= Len(q) /\ SubSeq(p, 1, k) = SubSeq(q, 1, k)
    /\ \/ k = Len(p) /\ k < Len(q)
       \/ k < Len(p) /\ k < Len(q) /\ p[k + 1] < q[k + 1]

\* C19: a listFrames call sends one Page.getFrameTree of its own and returns
\* the nodes of the tree that command answered, each once, parents before
\* children and earlier siblings' subtrees before later siblings, with isMain
\* true for the root and false for every other node.
C19_FreshPreOrderOneMain ==
  (proc.op = "listFrames" /\ proc.pc = "done" /\ proc.ret = "frames") =>
    /\ proc.sent = << <<"Page.getFrameTree", 0>> >>
    /\ Len(proc.frames) = Cardinality(Paths(proc.tree))
    /\ \A q \in Paths(proc.tree) :
         LET at == 1 + Cardinality({ p \in Paths(proc.tree) : Before(p, q) }) IN
         /\ proc.frames[at].id = NodeAt(proc.tree, q).id
         /\ proc.frames[at].isMain <=> q = <<>>

\* a tree whose first child has a child of its own: the grandchild comes
\* before the second child
C19_Witness ==
  /\ proc.op = "listFrames" /\ proc.pc = "done"
  /\ Len(proc.frames) = 4
  /\ proc.frames[3] = [id |-> "F4", isMain |-> FALSE]
  /\ proc.frames[4] = [id |-> "F3", isMain |-> FALSE]

\* ---------------------------------------------------------------------------
\* Site memory (utils/browser-paths.ts) and the cdp_site_scan / cdp_site_clear
\* tools (index.ts).  `page` is the world outside the server: the document the
\* browser shows, the site-memory file and the number of summaries in the
\* conversation file.  `proc` holds the module state of browser-paths.ts
\* (scannedThisEpoch, currentEpoch) and the tool call in progress.
\* ---------------------------------------------------------------------------

MaxEpoch == 2

Domains == {"a.com", "b.com"}

Invalid == "invalid"

\* A URL string together with what `new URL(text).hostname` yields for it
\* (Invalid when the constructor throws)
PageUrls == {[text |-> "https://a.com/x", hostname |-> "a.com"],
             [text |-> "https://b.com/", hostname |-> "b.com"]}

\* What a caller passes as `domain`: a bare host name or a URL
DomainArgs == {[text |-> "a.com", hostname |-> Invalid],
               [text |-> "b.com", hostname |-> Invalid],
               [text |-> "https://a.com/x", hostname |-> "a.com"]}

NoUrl == [text |-> "", hostname |-> Invalid]

NotesArgs == {"", "n"}

FrameCounts == {1, 2}

extractDomain(url) == IF url.hostname # Invalid THEN url.hostname ELSE url.text

NoInfo == [domain |-> "none"]

NoSites == [d \in Domains |-> NoInfo]

NoRet == [kind |-> "none"]

ErrorRet == [kind |-> "error"]

\* Module state at load, no tool call in progress.  stored and cleared are
\* history: the domains stored since the last compaction, and the domains
\* cleared and not stored since.
SiteProc ==
  [op |-> "site", pc |-> "done", scannedThisEpoch |-> {}, currentEpoch |-> 0,
   url |-> NoUrl, force |-> FALSE, note |-> "", cached |-> NoInfo, frames |-> 0,
   ret |-> NoRet, stored |-> {}, cleared |-> {}]

SitePage(url, sites, epoch) ==
  [kind |-> "site", url |-> url, sites |-> sites, epoch |-> epoch]

\* getEpochInfo: the number of summary entries in the conversation file
getEpochInfo(pg) == pg.epoch

checkAndUpdateEpochNoReset(p, pg) ==
  IF getEpochInfo(pg) # p.currentEpoch
    THEN [p EXCEPT !.currentEpoch = getEpochInfo(pg)]
    ELSE p

checkAndUpdateEpoch(p, pg) ==
  IF getEpochInfo(pg) # p.currentEpoch
    THEN [p EXCEPT !.scannedThisEpoch = {}, !.currentEpoch = getEpochInfo(pg)]
    ELSE p

getSiteInfo(pg, url) == pg.sites[extractDomain(url)]

shouldScanAlways(p, url) ==
  FALSE

\* should_scan of shouldScan, evaluated after its checkAndUpdateEpoch
shouldScan(p, url) ==
  extractDomain(url) \in p.scannedThisEpoch

Skipped(info) == [kind |-> "skipped", cached_info |-> info]

Scanned(info, cached) ==
  [kind |-> "scanned", domain |-> info.domain, epoch |-> info.last_epoch,
   rescanned |-> (cached # NoInfo)]

\* cdp_site_scan: the call starts and awaits the evaluate that reads document.URL
CallSiteScan(c, force, note) ==
  /\ proc.op = "site"
  /\ proc.pc = "done"
  /\ client = c
  /\ PageStep([proc EXCEPT !.pc = "url", !.force = force, !.note = note,
                           !.url = NoUrl, !.cached = NoInfo, !.frames = 0,
                           !.ret = NoRet], page)

\* the evaluate resolved: shouldScan decides
UrlAnswered(c) ==
  /\ proc.op = "site"
  /\ proc.pc = "url"
  /\ LET url == page.url
         p == checkAndUpdateEpoch(proc, page)
         info == getSiteInfo(page, url)
     IN IF shouldScan(p, url) /\ ~proc.force
          THEN PageStep([p EXCEPT !.pc = "done", !.url = url, !.cached = info,
                                  !.ret = Skipped(info)], page)
          ELSE PageStep([p EXCEPT !.pc = "listFrames", !.url = url, !.cached = info], page)

\* an awaited command of the scan rejected: the catch returns the error
ScanRejected(c) ==
  /\ proc.op = "site"
  /\ proc.pc \in {"url", "listFrames", "structure"}
  /\ PageStep([proc EXCEPT !.pc = "done", !.ret = ErrorRet], page)

\* listFrames resolved with n frames
FramesAnswered(c, n) ==
  /\ proc.op = "site"
  /\ proc.pc = "listFrames"
  /\ PageStep([proc EXCEPT !.pc = "structure", !.frames = n], page)

Structure(n) ==
  [has_iframes |-> n > 1, iframe_count |-> n - 1]

\* storeSiteInfo: the record is written to the file and the domain is marked
storeSiteInfo(p, pg, url, structure) ==
  LET domain == extractDomain(url)
      q == checkAndUpdateEpoch(p, pg)
      info == [url |-> url.text, domain |-> domain, last_epoch |-> q.currentEpoch,
               structure |-> structure, notes |-> <<>>]
  IN [proc |-> [q EXCEPT !.scannedThisEpoch = @ \cup {domain}],
      page |-> [pg EXCEPT !.sites[domain] = info],
      info |-> info]

addSiteNote(pg, url, note) ==
  LET domain == extractDomain(url)
  IN IF pg.sites[domain] = NoInfo
       THEN pg
       ELSE [pg EXCEPT !.sites[domain].notes = Append(@, note)]

\* the structure evaluate resolved: the result is stored, the optional note
\* added and the scan returned
StructureAnswered(c) ==
  /\ proc.op = "site"
  /\ proc.pc = "structure"
  /\ LET st == storeSiteInfo(proc, page, proc.url, Structure(proc.frames))
         pg == IF proc.note # "" THEN addSiteNote(st.page, proc.url, proc.note) ELSE st.page
         d == extractDomain(proc.url)
     IN PageStep([st.proc EXCEPT !.pc = "done", !.ret = Scanned(st.info, proc.cached),
                                 !.stored = @ \cup {d}, !.cleared = @ \ {d}], pg)

clearSiteInfoKeepScanned(p, pg, url) ==
  LET domain == extractDomain(url)
  IN IF pg.sites[domain] # NoInfo
       THEN [proc |-> p,
             page |-> [pg EXCEPT !.sites[domain] = NoInfo],
             cleared |-> TRUE]
       ELSE [proc |-> p, page |-> pg, cleared |-> FALSE]

clearSiteInfo(p, pg, url) ==
  LET domain == extractDomain(url)
  IN IF pg.sites[domain] # NoInfo
       THEN [proc |-> [p EXCEPT !.scannedThisEpoch = @ \ {domain}],
             page |-> [pg EXCEPT !.sites[domain] = NoInfo],
             cleared |-> TRUE]
       ELSE [proc |-> p, page |-> pg, cleared |-> FALSE]

Cleared(cl, url) == [kind |-> "cleared", cleared |-> cl.cleared, domain |-> url.text]

ClearWith(p, url) ==
  LET cl == clearSiteInfo(p, page, url)
  IN PageStep([cl.proc EXCEPT !.pc = "done", !.url = url, !.ret = Cleared(cl, url),
                              !.cleared = @ \cup {extractDomain(url)}], cl.page)

\* cdp_site_clear: with a domain argument the clear runs at once, without one
\* the call awaits the evaluate that reads document.URL
CallSiteClear(c, arg) ==
  /\ proc.op = "site"
  /\ proc.pc = "done"
  /\ client = c
  /\ IF arg # NoUrl
       THEN ClearWith(proc, arg)
       ELSE PageStep([proc EXCEPT !.pc = "clearUrl", !.url = NoUrl, !.ret = NoRet], page)

ClearUrlAnswered(c) ==
  /\ proc.op = "site"
  /\ proc.pc = "clearUrl"
  /\ ClearWith(proc, page.url)

\* the evaluate rejected: url stays undefined and the error is returned
ClearUrlRejected(c) ==
  /\ proc.op = "site"
  /\ proc.pc = "clearUrl"
  /\ PageStep([proc EXCEPT !.pc = "done", !.ret = ErrorRet], page)

\* the browser navigates to another document
Navigate(url) ==
  /\ page.kind = "site"
  /\ page.url # url
  /\ PageStep(proc, [page EXCEPT !.url = url])

\* a conversation compaction appends one summary to the conversation file
Compaction ==
  /\ page.kind = "site"
  /\ page.epoch < MaxEpoch
  /\ PageStep([proc EXCEPT !.stored = {}], [page EXCEPT !.epoch = @ + 1])

\* What the site-memory file holds when the server starts: nothing, or a
\* record an earlier run of the server stored
PriorSites ==
  {NoSites,
   [NoSites EXCEPT !["a.com"] =
      [url |-> "https://a.com/x", domain |-> "a.com", last_epoch |-> 0,
       structure |-> Structure(1), notes |-> <<>>]]}

InitSite ==
  /\ Connected
  /\ proc = SiteProc
  /\ \E url \in PageUrls, sites \in PriorSites, epoch \in 0..MaxEpoch :
        page = SitePage(url, sites, epoch)

NextSite ==
  \/ \E force \in BOOLEAN, note \in NotesArgs : CallSiteScan(1, force, note)
  \/ UrlAnswered(1)
  \/ ScanRejected(1)
  \/ \E n \in FrameCounts : FramesAnswered(1, n)
  \/ StructureAnswered(1)
  \/ \E arg \in DomainArgs \cup {NoUrl} : CallSiteClear(1, arg)
  \/ ClearUrlAnswered(1)
  \/ ClearUrlRejected(1)
  \/ \E url \in PageUrls : Navigate(url)
  \/ Compaction

SpecSite == InitSite /\ [][NextSite]_vars
\* The step of cdp_site_scan at which shouldScan has decided
ScanDecided ==
  /\ proc.op = "site"
  /\ proc.pc = "url"
  /\ proc'.pc \in {"done", "listFrames"}
  /\ proc'.ret # ErrorRet

C23_ClearForcesFreshScan ==
  [][/\ (proc.op = "site" /\ proc'.pc = "done" /\ proc'.ret.kind = "cleared") =>
          /\ page'.sites[extractDomain(proc'.url)] = NoInfo
          /\ \A e \in Domains \ {extractDomain(proc'.url)} : page'.sites[e] = page.sites[e]
     /\ (ScanDecided /\ extractDomain(page.url) \in proc.cleared) =>
          proc'.pc = "listFrames"]_vars

C23_Witness ==
  /\ proc.op = "site"
  /\ proc.pc = "listFrames"
  /\ ~proc.force
  /\ extractDomain(proc.url) \in proc.cleared
  /\ extractDomain(proc.url) \in proc.stored
  /\ proc.currentEpoch = page.epoch

\* ---------------------------------------------------------------------------
\* launchBrowser (browser-launcher.ts) and findBrowser (utils/browser-paths.ts).
\* `page` is the host: who listens on the debugging port, $CHROME_PATH, the
\* commands `which` finds and the files that exist.  `proc` is the launch in
\* progress and the number of browsers spawned.
\* ---------------------------------------------------------------------------

MaxInstalled == 2

MaxLaunches == 2

\* A path and the lower-case words (of those the code tests with includes)
\* that its lower-case text contains
Path(text, has) == [text |-> text, has |-> has]

NoPath == Path("", {})

CHROME_PATHS ==
  [linux |-> <<Path("/usr/bin/google-chrome", {"chrome"}),
               Path("/usr/bin/google-chrome-stable", {"chrome"}),
               Path("/opt/google/chrome/chrome", {"chrome"}),
               Path("/usr/bin/chromium", {"chromium"}),
               Path("/usr/bin/chromium-browser", {"chromium"}),
               Path("/snap/bin/chromium", {"chromium"}),
               Path("/usr/bin/microsoft-edge", {"edge"}),
               Path("/usr/bin/brave-browser", {"brave"})>>,
   darwin |-> <<Path("/Applications/Google Chrome.app/Contents/MacOS/Google Chrome", {"chrome"}),
                Path("/Applications/Chromium.app/Contents/MacOS/Chromium", {"chromium"}),
                Path("/Applications/Microsoft Edge.app/Contents/MacOS/Microsoft Edge", {"edge"}),
                Path("/Applications/Brave Browser.app/Contents/MacOS/Brave Browser", {"brave"})>>]

Platforms == {"linux", "darwin"}

commands ==
  <<"google-chrome", "google-chrome-stable", "chromium", "chromium-browser", "microsoft-edge">>

\* Where `which` finds a command that is on the PATH
WhichPath(cmd) ==
  CASE cmd = "google-chrome" -> Path("/usr/local/bin/google-chrome", {"chrome"})
    [] cmd = "google-chrome-stable" -> Path("/usr/local/bin/google-chrome-stable", {"chrome"})
    [] cmd = "chromium" -> Path("/usr/local/bin/chromium", {"chromium"})
    [] cmd = "chromium-browser" -> Path("/usr/local/bin/chromium-browser", {"chromium"})
    [] cmd = "microsoft-edge" -> Path("/usr/local/bin/microsoft-edge", {"edge"})

\* Values of $CHROME_PATH: unset, or a path
EnvPaths == {NoPath, Path("/custom/msedge", {"edge", "msedge"})}

Preferred == {"", "auto", "chromium"}

Range(s) == {s[i] : i \in 1..Len(s)}

getBrowserType(path) ==
  IF "chromium" \in path.has THEN "chromium"
  ELSE IF "edge" \in path.has \/ "msedge" \in path.has THEN "edge"
  ELSE IF "brave" \in path.has THEN "brave"
  ELSE "chrome"

NoBrowser == [path |-> "", type |-> "none"]

BrowserInfo(path) == [path |-> path.text, type |-> getBrowserType(path)]

existsSync(pg, path) == path.text \in pg.files

which(pg, cmd) == IF cmd \in pg.onPath THEN WhichPath(cmd) ELSE NoPath

\* The first path of a sequence, as a BrowserInfo, or null
FirstOf(paths) == IF paths = <<>> THEN NoBrowser ELSE BrowserInfo(paths[1])

findBrowser(pg, preferred) ==
  LET known == CHROME_PATHS[pg.platform]
      IsPreferred(p) == preferred \in p.has /\ existsSync(pg, p)
      Found(cmd) == which(pg, cmd) # NoPath /\ existsSync(pg, which(pg, cmd))
      Exists(p) == existsSync(pg, p)
      byPreferred == IF preferred # "" THEN SelectSeq(known, IsPreferred) ELSE <<>>
      byWhich == SelectSeq(commands, Found)
      byPath == SelectSeq(known, Exists)
  IN IF pg.env # NoPath /\ existsSync(pg, pg.env) THEN BrowserInfo(pg.env)
     ELSE IF byPreferred # <<>> THEN FirstOf(byPreferred)
     ELSE IF byWhich # <<>> THEN BrowserInfo(which(pg, byWhich[1]))
     ELSE FirstOf(byPath)

Listeners == {"none", "cdp", "http", "raw"}

\* Every path the host may hold
AllPaths ==
  UNION {Range(CHROME_PATHS[pl]) : pl \in Platforms}
    \cup {WhichPath(commands[i]) : i \in 1..Len(commands)} \cup (EnvPaths \ {NoPath})

Host(platform, listener, env, onPath, files) ==
  [kind |-> "host", platform |-> platform, listener |-> listener, env |-> env,
   onPath |-> onPath, files |-> files]

\* Hosts with at most MaxInstalled files; a command on the PATH is a file
Hosts ==
  {Host(pl, l, env, onPath, {p.text : p \in ps}) :
     pl \in Platforms, l \in Listeners, env \in EnvPaths,
     onPath \in SUBSET Range(commands),
     ps \in {s \in SUBSET AllPaths : Cardinality(s) <= MaxInstalled}}

LaunchProc ==
  [op |-> "launch", pc |-> "done", preferred |-> "", found |-> NoBrowser,
   searched |-> FALSE, spawned |-> 0, calls |-> 0, ret |-> NoRet]

LaunchFailed(error) ==
  [kind |-> "launch", launched |-> FALSE, error |-> error, browser |-> "none"]

Launched(info) ==
  [kind |-> "launch", launched |-> TRUE, error |-> "", browser |-> info.type]

\* launchBrowser is called and awaits isPortInUse
CallLaunch(preferred) ==
  /\ proc.op = "launch"
  /\ proc.pc = "done"
  /\ proc.calls < MaxLaunches
  /\ PageStep([proc EXCEPT !.pc = "port", !.preferred = preferred, !.found = NoBrowser,
                           !.searched = FALSE, !.calls = @ + 1, !.ret = NoRet], page)

\* isPortInUse: listening on the port fails when something already listens
isPortInUse(pg) == pg.listener # "none"

\* From findBrowser on: no browser, or spawn and wait for CDP
FindAndSpawn(p, pg) ==
  LET info == findBrowser(pg, p.preferred)
  IN IF info = NoBrowser
       THEN [p EXCEPT !.pc = "done", !.searched = TRUE, !.found = info,
                      !.ret = LaunchFailed("no_browser_found")]
       ELSE [p EXCEPT !.pc = "waitForCdp", !.searched = TRUE, !.found = info,
                      !.spawned = @ + 1]

\* isPortInUse resolved
PortChecked ==
  /\ proc.op = "launch"
  /\ proc.pc = "port"
  /\ IF isPortInUse(page)
       THEN PageStep([proc EXCEPT !.pc = "probe"], page)
       ELSE PageStep(FindAndSpawn(proc, page), page)

\* the fetch of /json/version on the busy port settled: a CDP instance answers
\* ok, another HTTP server answers not ok, anything else makes fetch throw
ProbeSettled ==
  /\ proc.op = "launch"
  /\ proc.pc = "probe"
  /\ CASE page.listener = "cdp" ->
            PageStep([proc EXCEPT !.pc = "done", !.ret = LaunchFailed("port_in_use")], page)
       [] page.listener = "http" ->
            PageStep(FindAndSpawn(proc, page), page)
       [] OTHER ->
            PageStep([proc EXCEPT !.pc = "done", !.ret = LaunchFailed("port_in_use")], page)

\* waitForCdp resolved: ready only if the spawned browser could take the port
WaitSettled(ready) ==
  /\ proc.op = "launch"
  /\ proc.pc = "waitForCdp"
  /\ ready => page.listener = "none"
  /\ IF ready
       THEN PageStep([proc EXCEPT !.pc = "version"], page)
       ELSE PageStep([proc EXCEPT !.pc = "done", !.ret = LaunchFailed("cdp_timeout")], page)

\* the version fetch settled (errors ignored): launched
VersionSettled ==
  /\ proc.op = "launch"
  /\ proc.pc = "version"
  /\ PageStep([proc EXCEPT !.pc = "done", !.ret = Launched(proc.found)], page)

InitLaunch ==
  /\ Connected
  /\ proc = LaunchProc
  /\ \E h \in Hosts :
       /\ \A cmd \in h.onPath : WhichPath(cmd).text \in h.files
       /\ page = h

NextLaunch ==
  \/ \E preferred \in Preferred : CallLaunch(preferred)
  \/ PortChecked
  \/ ProbeSettled
  \/ \E ready \in BOOLEAN : WaitSettled(ready)
  \/ VersionSettled

SpecLaunch == InitLaunch /\ [][NextLaunch]_vars

\* C24: a launchBrowser call that finds the debugging port in use returns
\* launched = false with error port_in_use and spawns no browser, whatever
\* listens on the port.
C24_PortInUseNoSpawn ==
  [][(proc.op = "launch" /\ isPortInUse(page)) =>
        /\ proc'.spawned = proc.spawned
        /\ (proc.pc # "done" /\ proc'.pc = "done") =>
              proc'.ret = LaunchFailed("port_in_use")]_vars

\* The candidates in the documented order that exist on the host: $CHROME_PATH,
\* the Chrome and Chromium commands, the known Chrome and Chromium install
\* paths, then Edge (command, then install paths), then the rest
Documented(pg) ==
  LET known == CHROME_PATHS[pg.platform]
      IsChrome(p) == getBrowserType(p) \in {"chrome", "chromium"}
      IsEdge(p) == getBrowserType(p) = "edge"
      IsOther(p) == getBrowserType(p) \notin {"chrome", "chromium", "edge"}
      Exists(p) == p # NoPath /\ existsSync(pg, p)
      cmds == [i \in 1..Len(commands) |-> which(pg, commands[i])]
  IN SelectSeq(<<pg.env>> \o SelectSeq(cmds, IsChrome) \o SelectSeq(known, IsChrome)
                 \o SelectSeq(cmds, IsEdge) \o SelectSeq(known, IsEdge)
                 \o SelectSeq(known, IsOther), Exists)

\* C25: with browser auto (or none given) findBrowser returns the first
\* existing candidate in the documented order, Edge only when no Chrome or
\* Chromium exists, and null only when no candidate exists.
C25_DocumentedOrder ==
  (proc.op = "launch" /\ proc.searched /\ proc.preferred \in {"", "auto"}) =>
    proc.found = FirstOf(Documented(page))

\* ---------------------------------------------------------------------------
\* The bug tracker (bugs.ts).  `page` is the BUGS.md file as a sequence of
\* lines; `proc` holds the id generator and the last call.  A line is kept as
\* what the parser can tell about it: whether it starts with white space, and
\* whether its text after that is a "## [id] title" heading, another "## "
\* heading, a **Reported:** line, a **Context:** line, blank or plain.
\* ---------------------------------------------------------------------------

MaxTracks == 2

Line(kind, indent, id, text) == [kind |-> kind, indent |-> indent, id |-> id, text |-> text]

Blank == Line("blank", FALSE, "", "")

Plain(text) == Line("plain", FALSE, "", text)

BugHeading(id, title, indent) == Line("head", indent, id, title)

Heading(text) == Line("heading", FALSE, "", text)

Reported(date) == Line("rep", FALSE, "", date)

Context(text) == Line("ctx", FALSE, "", text)

\* Descriptions a caller passes: one line, two paragraphs, text with a
\* markdown heading, text with a heading that reads as a bug heading, and the
\* same with the heading indented on the first line
Descriptions ==
  {<<Plain("x")>>,
   <<Plain("x"), Blank, Plain("y")>>,
   <<Plain("x"), Heading("Steps"), Plain("y")>>,
   <<Plain("x"), BugHeading("zz", "t", FALSE)>>,
   <<BugHeading("zz", "t", TRUE), Plain("y")>>}

Titles == {"t"}

Contexts == {"", "c"}

Days == {"d1", "d2"}

\* generateId: a fresh id for each call
BugIds == <<"b1", "b2", "b3", "b4">>

\* Ids a caller passes to fixBug
FixIds == {BugIds[i] : i \in 1..(MaxTracks + 1)} \cup {"zz"}

NoBug == [id |-> "", title |-> "", description |-> <<>>, reported |-> "", context |-> ""]

Bug(id, title, description, reported, context) ==
  [id |-> id, title |-> title, description |-> description, reported |-> reported,
   context |-> context]

\* String.trim on a description: white space before its first line goes
Trim(lines) ==
  IF lines = <<>> THEN <<>> ELSE <<[lines[1] EXCEPT !.indent = FALSE]>> \o Tail(lines)

\* the line starts with "## ": content.split(/^## /m) cuts here
StartsSection(l) == l.kind \in {"head", "heading"} /\ ~l.indent

\* a section that is being read: open is FALSE when its first line did not
\* match [id] title
NoSection == [open |-> FALSE, bug |-> NoBug]

Flush(acc) ==
  IF acc.cur.open
    THEN Append(acc.bugs, [acc.cur.bug EXCEPT !.description = Trim(@)])
    ELSE acc.bugs

ParseLine(acc, l) ==
  IF StartsSection(l)
    THEN [bugs |-> Flush(acc),
          cur |-> IF l.kind = "head"
                    THEN [open |-> TRUE, bug |-> Bug(l.id, l.text, <<>>, "", "")]
                    ELSE NoSection]
  ELSE IF ~acc.cur.open THEN acc
  ELSE IF l.kind = "rep" /\ ~l.indent THEN [acc EXCEPT !.cur.bug.reported = l.text]
  ELSE IF l.kind = "ctx" /\ ~l.indent THEN [acc EXCEPT !.cur.bug.context = l.text]
  ELSE IF l.kind # "blank" THEN [acc EXCEPT !.cur.bug.description = Append(@, l)]
  ELSE acc

RECURSIVE ParseFrom(_, _, _)
ParseFrom(lines, i, acc) ==
  IF i > Len(lines) THEN Flush(acc) ELSE ParseFrom(lines, i + 1, ParseLine(acc, lines[i]))

parseBugs(file) ==
  IF ~file.exists THEN <<>>
  ELSE ParseFrom(file.content, 1, [bugs |-> <<>>, cur |-> NoSection])

FileHeader ==
  <<Plain("# CDP-MCP Known Bugs"), Blank,
    Plain("Tracked issues to fix."), Blank>>

WriteBug(bug) ==
  <<BugHeading(bug.id, bug.title, FALSE), Reported(bug.reported)>>
    \o (IF bug.context # "" THEN <<Context(bug.context)>> ELSE <<>>)
    \o <<Blank>> \o bug.description \o <<Blank>>

RECURSIVE WriteFrom(_, _)
WriteFrom(bugs, i) ==
  IF i > Len(bugs) THEN <<>> ELSE WriteBug(bugs[i]) \o WriteFrom(bugs, i + 1)

writeBugs(file, bugs) ==
  [file EXCEPT !.exists = TRUE, !.content = FileHeader \o WriteFrom(bugs, 1)]

NoFile == [kind |-> "bugs", exists |-> FALSE, content |-> <<>>]

BugsProc == [op |-> "bugs", pc |-> "done", n |-> 0, call |-> "none", id |-> "",
             ret |-> NoRet]

\* findIndex: the first position whose bug has the id, 0 for -1
findIndex(bugs, id) ==
  IF \E i \in 1..Len(bugs) : bugs[i].id = id
    THEN CHOOSE i \in 1..Len(bugs) :
           bugs[i].id = id /\ \A j \in 1..(i - 1) : bugs[j].id # id
    ELSE 0

\* splice(index, 1)
Splice(bugs, index) ==
  SubSeq(bugs, 1, index - 1) \o SubSeq(bugs, index + 1, Len(bugs))

\* trackBug: parse, push a bug with a fresh id and the date of the day, write
trackBug(title, description, context, day) ==
  /\ proc.op = "bugs"
  /\ proc.n < MaxTracks
  /\ LET bugs == parseBugs(page)
         bug == Bug(BugIds[proc.n + 1], title, description, day, context)
     IN PageStep([proc EXCEPT !.n = @ + 1, !.call = "trackBug", !.id = bug.id,
                              !.ret = [kind |-> "bug", removed |-> FALSE, bug |-> bug]],
                 writeBugs(page, Append(bugs, bug)))

\* fixBug: parse; an unknown id returns at once, a known one is spliced out
\* and the rest written
fixBug(id) ==
  /\ proc.op = "bugs"
  /\ LET bugs == parseBugs(page)
         index == findIndex(bugs, id)
     IN IF index = 0
          THEN PageStep([proc EXCEPT !.call = "fixBug", !.id = id,
                                     !.ret = [kind |-> "bug", removed |-> FALSE, bug |-> NoBug]],
                        page)
          ELSE PageStep([proc EXCEPT !.call = "fixBug", !.id = id,
                                     !.ret = [kind |-> "bug", removed |-> TRUE, bug |-> bugs[index]]],
                        writeBugs(page, Splice(bugs, index)))

InitBugs ==
  /\ Connected
  /\ proc = BugsProc
  /\ page = NoFile

NextBugs ==
  \/ \E title \in Titles, description \in Descriptions, context \in Contexts, day \in Days :
       trackBug(title, description, context, day)
  \/ \E id \in FixIds : fixBug(id)

SpecBugs == InitBugs /\ [][NextBugs]_vars

\* C26: fixBug(id) removes exactly the tracked bug with that id and leaves
\* every other tracked bug as it was, in the same order; for an id that is not
\* tracked it returns removed = false and does not write the file.  trackBug
\* appends one bug and leaves the earlier ones as they were.
C26_OthersUnchanged ==
  [][LET before == parseBugs(page)
         after == parseBugs(page')
         index == findIndex(before, proc'.id)
     IN /\ (proc'.op = "bugs" /\ proc'.call = "fixBug") =>
             IF index = 0
               THEN ~proc'.ret.removed /\ page' = page
               ELSE proc'.ret.removed /\ after = Splice(before, index)
        /\ (proc'.op = "bugs" /\ proc'.call = "trackBug" /\ proc'.n = proc.n + 1) =>
             /\ Len(after) = Len(before) + 1
             /\ SubSeq(after, 1, Len(before)) = before
             /\ after[Len(after)].id = proc'.id]_vars

\* C27: the two directions of the frame/context map are mutually inverse:
\* frame f maps to context x exactly when context x maps to frame f.
C27_MapsMutuallyInverse ==
  \A c \in Clients, f \in FrameIds, x \in Ctxs :
    frameContexts[c][f] = x <=> contextFrames[c][x] = f

\* ---------------------------------------------------------------------------
\* Frame methods under context events as the browser sends them: an execution
\* context id names one context, so a created event never carries an id that
\* a live context of the map still holds.
\* ---------------------------------------------------------------------------

FreshContext(c, f) ==
  f.method = CtxCreated =>
    /\ contextFrames[c][f.ctx] = NoFrame
    /\ \A fr \in FrameIds : frameContexts[c][fr] # f.ctx

NextContexts ==
  \/ \E f \in CtxFrames : FreshContext(1, f) /\ RecvMessage(1, f)
  \/ CallListFrames(1)
  \/ CallFindElementInFrames(1)
  \/ \E f \in FrameIds : CallEvaluateInFrame(1, f)
  \/ \E t \in FrameTrees : AnswerFrameTree(1, t)
  \/ RejectFrameTree(1)
  \/ AnswerRefreshTree(1)
  \/ RejectRefreshTree(1)
  \/ SettleRefreshEnable(1)
  \/ GraceElapsed(1)
  \/ \E o \in EvalOutcomes : AnswerEvaluate(1, o)

SpecContexts == InitFrames /\ [][NextContexts]_vars

\* C28: whenever evaluateInFrame sends an evaluate command, under any
\* interleaving with context events, the context id it carries is the entry
\* the map holds for the frame at that moment, and that context is a live one
\* recorded for the frame: an id read before a destroyed or cleared event was
\* processed is not used.
C28_EvaluateUsesCurrentContext ==
  [][(proc' # proc /\ proc'.pc = "evaluate") =>
        LET m == proc'.sent[Len(proc'.sent)]
            f == proc'.frameId
        IN /\ m[1] = "Runtime.evaluate"
           /\ m[2] # 0
           /\ m[2] = frameContexts[1][f]
           /\ contextFrames[1][m[2]] = f]_vars

\* the frame had no entry at the call; after the wait context 1 is not live
\* and the evaluate went to context 2, the frame's entry
C28_Witness ==
  /\ proc.op = "evaluateInFrame" /\ proc.pc = "evaluate"
  /\ proc.lookups = <<0, 2>>
  /\ contextFrames[1][1] = NoFrame
  /\ frameContexts[1][proc.frameId] = 2

\* the channels of client c that are open or still deliver inbound frames
Delivering(c) == {ch \in Chans : owner[ch] = c /\ readyState[ch] \in {"OPEN", "CLOSING"}}

\* C29: a client has at most one channel at a time that is open or still
\* delivers inbound frames into its pending table and listeners.
C29_OneLiveChannel ==
  \A c \in Clients : Cardinality(Delivering(c)) <= 1

\* ---------------------------------------------------------------------------
\* cdp_wait (index.ts): the polling loop.  Time is in milliseconds and kept as
\* the time elapsed since the call, Date.now() - start.
\* ---------------------------------------------------------------------------

MaxTimeoutPolls == 2

PollInterval == 200

NavigationWait == 1000

\* Timeouts a caller passes, in steps of half a poll interval
Timeouts == {k * (PollInterval \div 2) : k \in 0..(2 * MaxTimeoutPolls)}

\* How long an evaluate takes to settle
EvalTimes == {0, PollInterval \div 2}

\* How late a timer fires
TimerLag == {0, PollInterval \div 2}

Conditions ==
  {"element_visible", "element_hidden", "element_exists", "text_contains",
   "value_equals", "navigation", "other"}

WaitProc ==
  [op |-> "wait", pc |-> "done", condition |-> "other", selector |-> FALSE,
   val |-> FALSE, timeout |-> 0, elapsed |-> 0, polls |-> 0, lastAt |-> 0,
   gap |-> PollInterval, met |-> FALSE, ret |-> NoRet]

WaitRet(success, error, waited_ms) ==
  [kind |-> "wait", success |-> success, error |-> error, waited_ms |-> waited_ms]

\* the condition's arguments that must be present
NeedsSelector(condition) ==
  condition \in {"element_visible", "element_hidden", "element_exists", "value_equals"}

NeedsValue(condition) == condition \in {"text_contains", "value_equals"}

MissingArgs(p) ==
  \/ NeedsSelector(p.condition) /\ ~p.selector
  \/ NeedsValue(p.condition) /\ ~p.val

ArgsError(p) ==
  IF p.condition = "value_equals" THEN "selector and value required"
  ELSE IF p.condition = "text_contains" THEN "value required"
  ELSE "selector required"

\* one evaluate of the condition is sent
Poll(p) ==
  [p EXCEPT !.pc = "evaluate", !.polls = @ + 1, !.lastAt = p.elapsed,
            !.gap = IF p.polls = 0 THEN PollInterval ELSE p.elapsed - p.lastAt]

\* the while test and the switch, up to the first await or return
LoopTest(p) ==
  IF ~(p.elapsed < p.timeout)
    THEN [p EXCEPT !.pc = "done", !.ret = WaitRet(FALSE, "Timeout", p.timeout)]
  ELSE IF p.condition = "navigation" THEN [p EXCEPT !.pc = "navigation"]
  ELSE IF p.condition = "other" THEN [p EXCEPT !.pc = "sleep"]
  ELSE IF MissingArgs(p) THEN [p EXCEPT !.pc = "done", !.ret = WaitRet(FALSE, ArgsError(p), 0)]
  ELSE Poll(p)

CallWait(c, condition, selector, val, timeout) ==
  /\ proc.op = "wait"
  /\ proc.pc = "done"
  /\ client = c
  /\ PageStep(LoopTest([WaitProc EXCEPT !.condition = condition, !.selector = selector,
                                        !.val = val, !.timeout = timeout]), page)

\* the evaluate resolved after dt: a truthy result returns success, a falsy
\* one starts the 200 ms timer
EvaluateResolved(c, met, dt) ==
  /\ proc.op = "wait"
  /\ proc.pc = "evaluate"
  /\ LET p == [proc EXCEPT !.elapsed = @ + dt, !.met = met]
     IN IF met
          THEN PageStep([p EXCEPT !.pc = "done", !.ret = WaitRet(TRUE, "", p.elapsed)], page)
          ELSE PageStep([p EXCEPT !.pc = "sleep"], page)

\* the evaluate rejected: cdp_wait throws and tools/call returns the error
EvaluateThrew(c, dt) ==
  /\ proc.op = "wait"
  /\ proc.pc = "evaluate"
  /\ PageStep([proc EXCEPT !.pc = "done", !.elapsed = @ + dt,
                           !.ret = WaitRet(FALSE, "thrown", 0)], page)

\* condition navigation: the 1000 ms timer fired, met = true
NavigationElapsed(c, lag) ==
  /\ proc.op = "wait"
  /\ proc.pc = "navigation"
  /\ LET p == [proc EXCEPT !.elapsed = @ + NavigationWait + lag]
     IN PageStep([p EXCEPT !.pc = "done", !.ret = WaitRet(TRUE, "", p.elapsed)], page)

\* the 200 ms timer fired: the while test again
SleepElapsed(c, lag) ==
  /\ proc.op = "wait"
  /\ proc.pc = "sleep"
  /\ PageStep(LoopTest([proc EXCEPT !.elapsed = @ + PollInterval + lag]), page)

InitWait ==
  /\ Connected
  /\ proc = WaitProc
  /\ page = NoPage

NextWait ==
  \/ \E condition \in Conditions, selector \in BOOLEAN, val \in BOOLEAN, timeout \in Timeouts :
       CallWait(1, condition, selector, val, timeout)
  \/ \E met \in BOOLEAN, dt \in EvalTimes : EvaluateResolved(1, met, dt)
  \/ \E dt \in EvalTimes : EvaluateThrew(1, dt)
  \/ \E lag \in TimerLag : NavigationElapsed(1, lag)
  \/ \E lag \in TimerLag : SleepElapsed(1, lag)

SpecWait == InitWait /\ [][NextWait]_vars

\* C30: the loop of cdp_wait is bounded by the timeout: a poll starts only
\* while the elapsed time is below the timeout and at least 200 ms after the
\* poll before it, so there are at most timeout / 200 polls (rounded up);
\* success = true is returned exactly when a poll found the condition met, at
\* that poll; 'Timeout' is returned only once the elapsed time has reached the
\* timeout.
C30_BoundedPolling ==
  proc.op = "wait" =>
    /\ proc.polls >= 1 => (proc.polls - 1) * PollInterval < proc.timeout
    /\ proc.polls >= 1 => proc.lastAt < proc.timeout
    /\ proc.gap >= PollInterval
    /\ proc.met => (proc.pc = "done" /\ proc.ret.kind = "wait" /\ proc.ret.success)
    /\ (proc.pc = "done" /\ proc.ret.kind = "wait" /\ proc.ret.success) =>
         (proc.polls >= 1 /\ proc.met)
    /\ (proc.pc = "done" /\ proc.ret.kind = "wait" /\ proc.ret.error = "Timeout") =>
         (proc.elapsed >= proc.timeout /\ ~proc.met)

\* ---------------------------------------------------------------------------
\* The MCP server loop (index.ts): every stdin line starts handleRequest, which
\* for tools/call awaits handleTool and then prints one response line.  The
\* line handler is async and is not awaited by readline, so the handling of a
\* line runs up to its first pending await and the next line is taken while it
\* waits.  Two tools: cdp_execute (one Runtime.evaluate through the current
\* client) and cdp_connect (createClient, then connect) against an endpoint
\* that is not reachable, answers not-OK, or lists no page tab.
\* ---------------------------------------------------------------------------

MaxRequests == 2   \* request lines read in a run

Requests == 1..MaxRequests

NoRequest == [tool |-> "none", pc |-> "new", c |-> 0, k |-> 0]

\* the requests by their JSON-RPC id, and the ids of the response lines
\* printed, in order
ServerProc == [op |-> "serve", pc |-> "run", req |-> [r \in Requests |-> NoRequest], out |-> <<>>]

\* console.log(JSON.stringify(response)) of request r
Respond(p, r) == [p EXCEPT !.req[r].pc = "done", !.out = Append(@, r)]

\* a tools/call line naming cdp_execute: without a client, or when send throws
\* 'Not connected to CDP', the handler runs to its response with nothing
\* pending; otherwise send has written the command and the handler awaits it
LineExecute(r) ==
  /\ proc.op = "serve" /\ proc.req[r].pc = "new"
  /\ LET c == GetClient IN
       IF c = 0 \/ ~IsOpen(c)
         THEN /\ proc' = Respond([proc EXCEPT !.req[r].tool = "cdp_execute"], r)
              /\ UNCHANGED <<messageId, pendingMessages, wire, outcome, timer>>
         ELSE /\ SentTotal < MaxSends
              /\ AllocId(c) \in Ids
              /\ LET id == AllocId(c) IN
                   /\ messageId' = [messageId EXCEPT ![c] = id + 1]
                   /\ pendingMessages' = [pendingMessages EXCEPT ![c] = @ \cup {id}]
                   /\ wire' = [wire EXCEPT ![c] = Append(@, id)]
                   /\ outcome' = [outcome EXCEPT ![c][id] = "pending"]
                   /\ timer' = [timer EXCEPT ![c][id] = "armed"]
                   /\ proc' = [proc EXCEPT !.req[r] = [tool |-> "cdp_execute", pc |-> "await", c |-> c, k |-> id]]
  /\ last' = Idle
  /\ UNCHANGED <<clientVars, ws, eventHandlers, mapVars, chanVars, value, settles, page>>

\* the promise of the command settled: evaluate returns or throws into the
\* catch of the handler, and the response line is printed
ExecuteSettled(r) ==
  /\ proc.op = "serve" /\ proc.req[r].pc = "await"
  /\ Settled(proc.req[r].c, proc.req[r].k)
  /\ PageStep(Respond(proc, r), page)

\* a tools/call line naming cdp_connect: createClient() disconnects the
\* current client and makes the new one, whose connect() fetches /json/version
LineConnect(r) ==
  /\ proc.op = "serve" /\ proc.req[r].pc = "new"
  /\ nClients < MaxClients
  /\ IF client # 0
       THEN DisconnectState(client)
       ELSE UNCHANGED <<ws, readyState, pendingMessages, eventHandlers, mapVars>>
  /\ nClients' = nClients + 1
  /\ client' = nClients + 1
  /\ proc' = [proc EXCEPT !.req[r] = [tool |-> "cdp_connect", pc |-> "version", c |-> nClients + 1, k |-> 0]]
  /\ last' = Idle
  /\ UNCHANGED <<messageId, owner, callVars, page>>

\* the fetch of connect() rejected, /json/version answered not-OK, or /json
\* listed no page tab: connect returns connected: false and the response
\* line is printed
ConnectReturned(r) ==
  /\ proc.op = "serve" /\ proc.req[r].pc = "version"
  /\ PageStep(Respond(proc, r), page)

InitServer ==
  /\ Connected
  /\ proc = ServerProc
  /\ page = NoPage

NextServer ==
  \/ \E r \in Requests : LineExecute(r)
  \/ \E r \in Requests : ExecuteSettled(r)
  \/ \E r \in Requests : LineConnect(r)
  \/ \E r \in Requests : ConnectReturned(r)
  \/ \E f \in ResponseFrames : RecvMessage(1, f)
  \/ \E c \in Clients, k \in Ids : Timeout(c, k)
  \/ \E ch \in Chans : WsClosed(ch)

\* the event loop runs every callback that is ready: timers fire, settled
\* promises resume their handlers, fetches end
FairServer ==
  /\ \A r \in Requests : WF_vars(ExecuteSettled(r))
  /\ \A r \in Requests : WF_vars(ConnectReturned(r))
  /\ \A c \in Clients, k \in Ids : WF_vars(Timeout(c, k))

SpecServer == InitServer /\ [][NextServer]_vars /\ FairServer

\* the number of response lines printed for request r
RECURSIVE Count(_, _)
Count(s, r) == IF s = <<>> THEN 0 ELSE (IF Head(s) = r THEN 1 ELSE 0) + Count(Tail(s), r)

\* C31: every tools/call line that was read leads to exactly one response
\* line with its id, also when another request (a cdp_connect that replaces
\* the client) is handled while the CDP command of the first is in flight.
C31_EveryRequestAnswered ==
  \A r \in Requests : (proc.req[r].pc # "new") ~> (Count(proc.out, r) = 1)

\* C32: a context-destroyed event for a context that is not the current
\* context of a frame leaves that frame's entry as it was: after contexts 1
\* then 2 were created for frame F, destroying context 1 leaves F at 2.
C32_DestroyOlderKeepsCurrent ==
  [][ last'.op = "message" =>
        \A f \in CtxFrames :
          (f.method = CtxDestroyed /\ RecvMessage(1, f)) =>
            \A F \in FrameIds :
              (frameContexts[1][F] # 0 /\ frameContexts[1][F] # f.ctx) =>
                frameContexts'[1][F] = frameContexts[1][F]
    ]_vars

\* C33: an evaluateInFrame call for a frame without an entry leaves the
\* entries of all other frames as they are: the refresh it runs removes no
\* mapping of a frame whose context was created and neither destroyed nor
\* cleared.
C33_RefreshKeepsOtherFrames ==
  [][ (proc.op = "evaluateInFrame" /\ proc.pc = "refreshTree" /\ proc'.pc # proc.pc) =>
        \A F \in FrameIds \ {proc.frameId} :
          frameContexts'[1][F] = frameContexts[1][F]
    ]_vars

\* ---------------------------------------------------------------------------
\* connect() with the context events of the browser: once Runtime.enable is on
\* the wire the browser announces the execution contexts of the page on the
\* channel, each id once.  page.live is the browser's side of it: the
\* contexts announced on the channel and neither destroyed nor cleared since,
\* with their frames.
\* ---------------------------------------------------------------------------

Browser(announced) == [kind |-> "browser", live |-> announced]

\* what a context event does to the contexts the browser has alive
Announce(announced, f) ==
  CASE f.method = CtxCreated ->
         IF f.frame # NoFrame THEN announced \cup {<<f.ctx, f.frame>>} ELSE announced
    [] f.method = CtxDestroyed -> {a \in announced : a[1] # f.ctx}
    [] OTHER -> {}

\* a context event arrives on the channel of client c while connect() runs:
\* the event branch of the 'message' listener
ContextEvent(c, f) ==
  /\ proc.op = "connect" /\ proc.pc # "done"
  /\ IsOpen(c)
  /\ \E i \in 1..Len(proc.sent) : proc.sent[i][1] = "Runtime.enable"
  /\ f.method = CtxCreated => \A a \in page.live : a[1] # f.ctx
  /\ LET st == Dispatch(c, f) IN
       /\ frameContexts' = [frameContexts EXCEPT ![c] = st.fc]
       /\ contextFrames' = [contextFrames EXCEPT ![c] = st.cf]
       /\ last' = [Received(c, f) EXCEPT !.log = st.log, !.threw = st.threw]
  /\ page' = [page EXCEPT !.live = Announce(@, f)]
  /\ UNCHANGED <<clientVars, ws, messageId, pendingMessages, eventHandlers, chanVars, callVars, proc>>

\* the client createClient() made, not yet connected, and a browser that has
\* announced nothing
InitConnectEvents ==
  /\ client = 1
  /\ nClients = 1
  /\ ws = [c \in Clients |-> 0]
  /\ messageId = [c \in Clients |-> 1]
  /\ pendingMessages = [c \in Clients |-> {}]
  /\ eventHandlers = [c \in Clients |-> [e \in EventNames |-> <<>>]]
  /\ frameContexts = [c \in Clients |-> [f \in FrameIds |-> 0]]
  /\ contextFrames = [c \in Clients |-> [x \in Ctxs |-> NoFrame]]
  /\ readyState = [ch \in Chans |-> "NONE"]
  /\ owner = [ch \in Chans |-> 0]
  /\ wire = [c \in Clients |-> <<>>]
  /\ outcome = [c \in Clients |-> [k \in Ids |-> "none"]]
  /\ value = [c \in Clients |-> [k \in Ids |-> "none"]]
  /\ settles = [c \in Clients |-> [k \in Ids |-> 0]]
  /\ timer = [c \in Clients |-> [k \in Ids |-> "none"]]
  /\ last = Idle
  /\ proc = NoProc
  /\ page = Browser({})

\* the tab lists of the endpoint connect() talks to here
EndpointTabs == {t \in TabLists : Len(t) <= 1}

NextConnectEvents ==
  \/ \E tabIndex \in {0, 1} : CallConnect(1, tabIndex)
  \/ \E ok \in BOOLEAN : VersionAnswered(1, ok)
  \/ FetchRejected(1)
  \/ \E tabs \in EndpointTabs : TabsAnswered(1, tabs)
  \/ \E ch \in Chans : WsOpen(ch)
  \/ \E ch \in Chans : WsClosed(ch)
  \/ ConnectOpened(1)
  \/ ConnectFailed(1)
  \/ EnableAnswered(1)
  \/ EnableRejected(1)
  \/ AnswerRefreshTree(1)
  \/ RejectRefreshTree(1)
  \/ SettleRefreshEnable(1)
  \/ \E f \in CtxFrames : ContextEvent(1, f)

SpecConnectEvents == InitConnectEvents /\ [][NextConnectEvents]_vars

\* C34: when connect returns connected: true, the maps hold an entry for
\* every context-created event that arrived on the channel since it opened and
\* was not followed by a destroyed or cleared event, the events that arrive
\* while Runtime.enable is being answered included.
C34_ConnectedMapComplete ==
  (proc.op = "connect" /\ proc.pc = "done" /\ proc.ret = [connected |-> TRUE]) =>
    \A a \in page.live :
      /\ contextFrames[1][a[1]] = a[2]
      /\ frameContexts[1][a[2]] # 0

\* ---------------------------------------------------------------------------
\* switchTab(tabIndex) as a whole on a connected client: listTabs, close of
\* the current channel, connectToTab, the three enables.
\* ---------------------------------------------------------------------------

\* switchTab at its entry, awaiting the fetch of listTabs; old and chan are
\* the channels this.ws held before and after connectToTab
SwitchProc(tabIndex) ==
  [op |-> "switchTab", pc |-> "listTabs", tabIndex |-> tabIndex, tabs |-> <<>>,
   old |-> 0, chan |-> 0, sent |-> <<>>, ret |-> NoResult]

Returned(b) == [returned |-> b]

CallSwitchTab(c, tabIndex) ==
  /\ Created(c) /\ proc.op = "none"
  /\ ConnectStep(SwitchProc(tabIndex))

\* the fetch of listTabs (or the parsing of its body) throws: out of switchTab
SwitchFetchRejected(c) ==
  /\ proc.op = "switchTab" /\ proc.pc = "listTabs"
  /\ ConnectStep(Done(proc, Threw))

\* listTabs answered: false for an index beyond the page tabs or a tab without
\* a webSocketDebuggerUrl; otherwise close() on the current channel and
\* connectToTab
SwitchTabsAnswered(c, tabs) ==
  /\ proc.op = "switchTab" /\ proc.pc = "listTabs"
  /\ LET pageTabs == PageTabs(tabs)
         p == [proc EXCEPT !.tabs = tabs] IN
       IF proc.tabIndex >= Len(pageTabs) \/ ~pageTabs[proc.tabIndex + 1].url
         THEN /\ proc' = Done(p, Returned(FALSE))
              /\ UNCHANGED <<ws, chanVars>>
         ELSE /\ HasFreeChan
              /\ NewWebSocket(c, IF ws[c] # 0 THEN [readyState EXCEPT ![ws[c]] = WsClose(@)]
                                 ELSE readyState)
              /\ proc' = [p EXCEPT !.pc = "dial", !.old = ws[c], !.chan = FreeChan]
  /\ last' = Idle
  /\ UNCHANGED <<clientVars, messageId, pendingMessages, eventHandlers, mapVars, callVars, page>>

\* send(method) of switchTab: on the wire, or 'Not connected to CDP' thrown
SwitchSend(c, p, method) ==
  IF IsOpen(c) THEN Await(p, method, method) ELSE Done(p, Threw)

\* 'open' of the dialled channel: connectToTab resolves and Page.enable is
\* sent through this.ws as it is then
SwitchOpened(c) ==
  /\ proc.op = "switchTab" /\ proc.pc = "dial"
  /\ readyState[proc.chan] = "CONNECTING"
  /\ readyState' = [readyState EXCEPT ![proc.chan] = "OPEN"]
  /\ proc' = IF ws[c] = proc.chan THEN Await(proc, "Page.enable", "Page.enable")
             ELSE Done(proc, Threw)
  /\ last' = Idle
  /\ UNCHANGED <<clientVars, ws, messageId, pendingMessages, eventHandlers, mapVars, owner, callVars, page>>

\* 'error' of the dialled channel: connectToTab rejects
SwitchDialFailed(c) ==
  /\ proc.op = "switchTab" /\ proc.pc = "dial"
  /\ readyState[proc.chan] = "CLOSED"
  /\ ConnectStep(Done(proc, Threw))

\* an enable resolved: the next one is sent, after the last switchTab
\* returns true
SwitchEnableAnswered(c) ==
  /\ proc.op = "switchTab" /\ \E i \in 1..Len(Enables) : proc.pc = Enables[i]
  /\ LET i == CHOOSE j \in 1..Len(Enables) : proc.pc = Enables[j] IN
       ConnectStep(IF i < Len(Enables) THEN SwitchSend(c, proc, Enables[i + 1])
                   ELSE Done(proc, Returned(TRUE)))

\* an enable rejected (error response or timeout): out of switchTab
SwitchEnableRejected(c) ==
  /\ proc.op = "switchTab" /\ \E i \in 1..Len(Enables) : proc.pc = Enables[i]
  /\ ConnectStep(Done(proc, Threw))

InitSwitch ==
  /\ Connected
  /\ proc = NoProc
  /\ page = NoPage

NextSwitch ==
  \/ \E tabIndex \in TabIndexes : CallSwitchTab(1, tabIndex)
  \/ SwitchFetchRejected(1)
  \/ \E tabs \in TabLists : SwitchTabsAnswered(1, tabs)
  \/ SwitchOpened(1)
  \/ SwitchDialFailed(1)
  \/ SwitchEnableAnswered(1)
  \/ SwitchEnableRejected(1)
  \/ \E ch \in Chans : WsClosed(ch)

SpecSwitch == InitSwitch /\ [][NextSwitch]_vars

\* the step that ends listTabs: a return of false leaves the channel alone,
\* and an index at or beyond the page tabs returns false
SwitchFalseLeavesChannel ==
  [][ (proc.op = "switchTab" /\ proc.pc = "listTabs" /\ proc'.pc # "listTabs") =>
        /\ proc'.ret = Returned(FALSE) => UNCHANGED <<ws, readyState, owner>>
        /\ (proc'.ret # Threw /\ proc.tabIndex >= Len(PageTabs(proc'.tabs))) =>
             proc'.ret = Returned(FALSE)
    ]_vars

\* C35: after switchTab(i) has returned true, this.ws is the channel of the
\* new tab for as long as that channel is open (so isConnected() is true): the
\* late 'close' of the previous channel does not clear it.  switchTab with an
\* index at or beyond the tab count returns false and leaves the connection as
\* it was.
C35_SwitchTabKeepsNewChannel ==
  /\ []((proc.op = "switchTab" /\ proc.pc = "done" /\ proc.ret = Returned(TRUE)
           /\ readyState[proc.chan] = "OPEN") => (ws[1] = proc.chan /\ IsOpen(1)))
  /\ SwitchFalseLeavesChannel

\* C36: type() dispatches key events only after its script found the element
\* and set the value: while the keystroke loop runs (key-down, key-up or the
\* pause between characters) the script has reported success, for any delay.
C36_KeysOnlyWhenFound ==
  (proc.op \in {"type", "interactType"} /\ proc.pc \in {"keyDown", "keyUp", "keySleep"}) =>
    proc.result.success

\* ---------------------------------------------------------------------------
\* cdp_site_note beside cdp_site_scan: notes recorded for a domain, and the
\* rescans of the domain (forced, or in a new epoch).
\* ---------------------------------------------------------------------------

MaxNotes == 2   \* notes a stored record holds

Noted(added) == [kind |-> "noted", added |-> added]

\* cdp_site_note: the call starts and awaits the evaluate that reads document.URL
CallSiteNote(c, note) ==
  /\ proc.op = "site"
  /\ proc.pc = "done"
  /\ client = c
  /\ PageStep([proc EXCEPT !.pc = "noteUrl", !.note = note, !.url = NoUrl,
                           !.force = FALSE, !.cached = NoInfo, !.frames = 0,
                           !.ret = NoRet], page)

\* the evaluate resolved: without a note (and without a selector) an error,
\* otherwise addSiteNote on the record of the page's domain
NoteUrlAnswered(c) ==
  /\ proc.op = "site"
  /\ proc.pc = "noteUrl"
  /\ LET url == page.url
         d == extractDomain(url) IN
       /\ page.sites[d] # NoInfo => Len(page.sites[d].notes) < MaxNotes
       /\ IF proc.note = ""
            THEN PageStep([proc EXCEPT !.pc = "done", !.url = url, !.ret = ErrorRet], page)
            ELSE PageStep([proc EXCEPT !.pc = "done", !.url = url,
                                       !.ret = Noted(page.sites[d] # NoInfo)],
                          addSiteNote(page, url, proc.note))

\* the evaluate rejected: url stays null and the error is returned
NoteUrlRejected(c) ==
  /\ proc.op = "site"
  /\ proc.pc = "noteUrl"
  /\ PageStep([proc EXCEPT !.pc = "done", !.ret = ErrorRet], page)

NextNotes ==
  \/ \E force \in BOOLEAN : CallSiteScan(1, force, "")
  \/ UrlAnswered(1)
  \/ ScanRejected(1)
  \/ \E n \in FrameCounts : FramesAnswered(1, n)
  \/ StructureAnswered(1)
  \/ \E note \in NotesArgs : CallSiteNote(1, note)
  \/ NoteUrlAnswered(1)
  \/ NoteUrlRejected(1)
  \/ \E url \in PageUrls : Navigate(url)
  \/ Compaction

SpecNotes == InitSite /\ [][NextNotes]_vars

\* C37: the notes recorded for a domain are still in site memory after a
\* later cdp_site_scan of the domain, be the rescan forced or due to a new
\* epoch: the store of a scan replaces the structure and keeps the notes.
C37_ScanKeepsNotes ==
  [][ (proc.op = "site" /\ proc.pc = "structure" /\ proc'.ret.kind = "scanned") =>
        LET d == extractDomain(proc.url) IN
          page.sites[d] # NoInfo =>
            /\ page'.sites[d] # NoInfo
            /\ page'.sites[d].notes = page.sites[d].notes
    ]_vars

\* ---------------------------------------------------------------------------
\* navigate(url) of a connected client: Page.navigate, the one-shot wait for
\* Page.loadEventFired with its 10 s fallback timer, the evaluate of URL and
\* title.  Calls of navigate run concurrently when tools/call lines are
\* handled interleaved; the handler a call registers is named by the call.
\* ---------------------------------------------------------------------------

MaxNavigates == 2   \* navigate calls in a run

Navigates == 1..MaxNavigates

LoadEvent == "Page.loadEventFired"

\* a call of navigate: its position, its fallback timer, and what ended its wait
NoNavigate == [pc |-> "idle", timer |-> "none", by |-> "none"]

NavProc == [op |-> "navigate", pc |-> "run", call |-> [i \in Navigates |-> NoNavigate]]

\* a step of the navigate calls that leaves the client's channel and tables alone
NavStep(p, eh, lst) ==
  /\ proc' = p
  /\ eventHandlers' = eh
  /\ last' = lst
  /\ UNCHANGED <<clientVars, ws, messageId, pendingMessages, mapVars, chanVars, callVars, page>>

\* navigate(url) up to the await of Page.navigate
CallNavigate(c, i) ==
  /\ proc.op = "navigate" /\ proc.call[i].pc = "idle"
  /\ IsOpen(c)
  /\ NavStep([proc EXCEPT !.call[i].pc = "Page.navigate"], eventHandlers, Idle)

\* a registration that replaces the list of the event by the new handler
NavigateAnsweredReplacing(c, i) ==
  /\ proc.op = "navigate" /\ proc.call[i].pc = "Page.navigate"
  /\ NavStep([proc EXCEPT !.call[i].pc = "wait", !.call[i].timer = "armed"],
             [eventHandlers EXCEPT ![c][LoadEvent] = <<i>>], Idle)

\* Page.navigate resolved: the handler is registered with on() and the
\* fallback timer is armed
NavigateAnswered(c, i) ==
  /\ proc.op = "navigate" /\ proc.call[i].pc = "Page.navigate"
  /\ NavStep([proc EXCEPT !.call[i].pc = "wait", !.call[i].timer = "armed"],
             OnState(c, LoadEvent, i), Idle)

\* resolve() of the wait of call i: the first invocation ends the wait and
\* navigate sends its Runtime.evaluate, later ones do nothing
ResolveWait(p, i, by) ==
  IF p.call[i].pc = "wait"
    THEN [p EXCEPT !.call[i].pc = "Runtime.evaluate", !.call[i].by = by]
    ELSE p

\* the handler of call h: this.eventHandlers.delete('Page.loadEventFired');
\* resolve().  st = [eh, p, log] is the registry of the event, the calls and
\* the handlers run so far
InvokeLoad(h, st) ==
  [eh |-> <<>>, p |-> ResolveWait(st.p, h, "load"), log |-> Append(st.log, h)]

\* handlers.forEach(h => h(message.params)) over the array the listener got
\* from the registry before the first handler ran
RECURSIVE ForEachLoad(_, _)
ForEachLoad(hs, st) ==
  IF hs = <<>> THEN st
  ELSE ForEachLoad(Tail(hs), InvokeLoad(Head(hs), st))

\* a Page.loadEventFired frame arrives: the event branch of the 'message'
\* listener
LoadEventFired(c) ==
  /\ proc.op = "navigate"
  /\ IsOpen(c)
  /\ LET handlers == eventHandlers[c][LoadEvent]
         st == ForEachLoad(handlers, [eh |-> handlers, p |-> proc, log |-> <<>>]) IN
       NavStep(st.p, [eventHandlers EXCEPT ![c][LoadEvent] = st.eh],
               [Idle EXCEPT !.op = "message", !.c = c, !.hasMethod = TRUE, !.log = st.log])

\* the 10 s timer of call i fires: setTimeout(resolve, 10000), never cleared
FallbackFired(c, i) ==
  /\ proc.op = "navigate" /\ proc.call[i].timer = "armed"
  /\ NavStep(ResolveWait([proc EXCEPT !.call[i].timer = "fired"], i, "timer"),
             eventHandlers, Idle)

\* the evaluate of URL and title resolved: navigate returns
NavigateReturned(c, i) ==
  /\ proc.op = "navigate" /\ proc.call[i].pc = "Runtime.evaluate"
  /\ NavStep([proc EXCEPT !.call[i].pc = "done"], eventHandlers, Idle)

\* Page.navigate or the evaluate rejected: navigate throws
NavigateRejected(c, i) ==
  /\ proc.op = "navigate" /\ proc.call[i].pc \in {"Page.navigate", "Runtime.evaluate"}
  /\ NavStep([proc EXCEPT !.call[i].pc = "threw"], eventHandlers, Idle)

\* the client after connect(): its channel open, the tracking handlers
\* registered, no listener for the load event
InitNavigate ==
  /\ client = 1
  /\ nClients = 1
  /\ ws = [c \in Clients |-> IF c = 1 THEN 1 ELSE 0]
  /\ messageId = [c \in Clients |-> 1]
  /\ pendingMessages = [c \in Clients |-> {}]
  /\ eventHandlers = [c \in Clients |->
       [e \in EventNames \cup {LoadEvent} |->
          IF c # 1 THEN <<>>
          ELSE CASE e = CtxCreated -> <<"onCreated">>
                 [] e = CtxDestroyed -> <<"onDestroyed">>
                 [] e = CtxCleared -> <<"onCleared">>
                 [] OTHER -> <<>>]]
  /\ frameContexts = [c \in Clients |-> [f \in FrameIds |-> 0]]
  /\ contextFrames = [c \in Clients |-> [x \in Ctxs |-> NoFrame]]
  /\ readyState = [ch \in Chans |-> IF ch = 1 THEN "OPEN" ELSE "NONE"]
  /\ owner = [ch \in Chans |-> IF ch = 1 THEN 1 ELSE 0]
  /\ wire = [c \in Clients |-> <<>>]
  /\ outcome = [c \in Clients |-> [k \in Ids |-> "none"]]
  /\ value = [c \in Clients |-> [k \in Ids |-> "none"]]
  /\ settles = [c \in Clients |-> [k \in Ids |-> 0]]
  /\ timer = [c \in Clients |-> [k \in Ids |-> "none"]]
  /\ last = Idle
  /\ proc = NavProc
  /\ page = NoPage

NextNavigate ==
  \/ \E i \in Navigates : CallNavigate(1, i)
  \/ \E i \in Navigates : NavigateAnswered(1, i)
  \/ LoadEventFired(1)
  \/ \E i \in Navigates : FallbackFired(1, i)
  \/ \E i \in Navigates : NavigateReturned(1, i)
  \/ \E i \in Navigates : NavigateRejected(1, i)

SpecNavigate == InitNavigate /\ [][NextNavigate]_vars

\* the handlers registered for the load event
LoadHandlers == {eventHandlers[1][LoadEvent][j] : j \in 1..Len(eventHandlers[1][LoadEvent])}

\* C38: the handler navigate registers does not outlive the wait of its call:
\* once the wait has ended, by the load event or by the fallback timer, the
\* handler is not in the registry.
C38_HandlerGoneAfterWait ==
  \A i \in Navigates :
    proc.call[i].pc \in {"Runtime.evaluate", "done", "threw"} => i \notin LoadHandlers

\* C39: the registration of a second waiter leaves the first one in the list,
\* ahead of it, and a load event releases every call that is waiting: none
\* stays behind for its fallback timer.
C39_BothWaitersReleased ==
  [][ /\ \A i \in Navigates :
           (proc.call[i].pc = "Page.navigate" /\ proc'.call[i].pc = "wait") =>
             eventHandlers'[1][LoadEvent] = Append(eventHandlers[1][LoadEvent], i)
      /\ last'.op = "message" =>
           \A i \in Navigates :
             proc.call[i].pc = "wait" =>
               (proc'.call[i].pc = "Runtime.evaluate" /\ proc'.call[i].by = "load")
    ]_vars

\* one load event has run the handlers of both calls, in the order of their
\* registration, and released both
C39_Witness ==
  /\ last.op = "message" /\ last.log = <<1, 2>>
  /\ \A i \in {1, 2} : proc.call[i].pc = "Runtime.evaluate" /\ proc.call[i].by = "load"
  /\ proc.call[1].timer = "armed" /\ proc.call[2].timer = "armed"

\* ---------------------------------------------------------------------------
\* writeBugs followed by parseBugs on a list of bugs.
\* ---------------------------------------------------------------------------

MaxBugs == 2   \* bugs in the list written

\* the descriptions of C26 and two whose second line starts with
\* '**Reported:**' or '**Context:**'
RoundTripDescriptions ==
  Descriptions \cup {<<Plain("x"), Reported("d2")>>, <<Plain("x"), Context("c")>>}

\* the lists written: the i-th bug has the i-th id
BugLists ==
  UNION { { [i \in 1..n |-> Bug(BugIds[i], "t", b[i].description, b[i].reported, b[i].context)] :
              b \in [1..n -> [description : RoundTripDescriptions, reported : Days,
                              context : Contexts]] } : n \in 0..MaxBugs }

RoundTripProc == [op |-> "roundTrip", pc |-> "start", bugs |-> <<>>, back |-> <<>>]

\* writeBugs(bugs)
WriteList(bugs) ==
  /\ proc.op = "roundTrip" /\ proc.pc = "start"
  /\ PageStep([proc EXCEPT !.pc = "written", !.bugs = bugs], writeBugs(page, bugs))

\* parseBugs() of the file written
ParseBack ==
  /\ proc.op = "roundTrip" /\ proc.pc = "written"
  /\ PageStep([proc EXCEPT !.pc = "parsed", !.back = parseBugs(page)], page)

InitRoundTrip ==
  /\ Connected
  /\ proc = RoundTripProc
  /\ page = NoFile

NextRoundTrip ==
  \/ \E bugs \in BugLists : WriteList(bugs)
  \/ ParseBack

SpecRoundTrip == InitRoundTrip /\ [][NextRoundTrip]_vars

\* C40: parsing the file writeBugs wrote returns the list that was written:
\* as many bugs, in the same order, with the same id, title, description,
\* reported date and context.
C40_WriteParseRoundTrip ==
  (proc.op = "roundTrip" /\ proc.pc = "parsed") => proc.back = proc.bugs

====
